---------------------------- MODULE Spec2Model ----------------------------
(***************************************************************************)
(* A model of src/src/libs/gl.h: the capability probe init, the GLCHK      *)
(* error wrapper, the shader compiler, the quad mesh, the draw             *)
(* orchestrator and the texture allocator, executed statement by statement *)
(* against a model of the OpenGL 2.1 context state the calls act on.       *)
(*                                                                         *)
(* pc is the call stack: a sequence of frames [fn, line], the last frame   *)
(* being the running function and line the source line about to execute.   *)
(* Every GLCHK(stmt) is one step: the GL call followed by check_error.     *)
(***************************************************************************)
EXTENDS Integers, Sequences, FiniteSets, TLC

VARIABLES pc, gl, err, shader, mesh, loc, inp, log, trace, pre, done, budget

vars == <<pc, gl, err, shader, mesh, loc, inp, log, trace, pre, done, budget>>

(***************************************************************************)
(* Bounds of the model.                                                    *)
(***************************************************************************)
MaxHandle == 2          \* object names of each kind are 0..MaxHandle, 0 being "none"
MaxLocation == 2        \* the driver hands out locations 0..MaxLocation
MaxVertexAttribs == 3   \* GL_MAX_VERTEX_ATTRIBS of the modelled driver
MaxFails == 1           \* injected GPU call failures per run
MaxSize == 1            \* a rectangle is -MaxSize..MaxSize wide and high

Handles == 0..MaxHandle
Locations == -1..MaxLocation

\* A C object that was never written holds an indeterminate value.
Indeterminate == 0 - 1000

\* The values a read of a slot that was never written is modelled to produce:
\* the sentinel and a location of the driver.
Garbage == {-1, MaxLocation}

\* The values a read of x can produce, S being the values an indeterminate x
\* can turn out to hold.
Read(x, S) == IF x = Indeterminate THEN S ELSE {x}

SlotCount == 8
SizeofImDrawVert == 20
QuadVerts == 6

UniformTypes == {"UniformType_Float", "UniformType_Vec2",
                 "UniformType_Matrix4", "UniformType_Color"}

(***************************************************************************)
(* The driver's error codes.  GL_TABLE_TOO_LARGE is an error of the GL 2.1 *)
(* imaging subset that check_error has no branch for.                      *)
(***************************************************************************)
ErrorCodes == {"GL_INVALID_ENUM", "GL_INVALID_VALUE", "GL_INVALID_OPERATION",
               "GL_INVALID_FRAMEBUFFER_OPERATION", "GL_OUT_OF_MEMORY",
               "GL_STACK_UNDERFLOW", "GL_STACK_OVERFLOW", "GL_TABLE_TOO_LARGE"}

\* The codes an injected failure of a wrapped call raises.
InjectCodes == {"GL_INVALID_OPERATION", "GL_OUT_OF_MEMORY"}

(***************************************************************************)
(* The GL context: global state, then the object tables.                   *)
(***************************************************************************)
NoPointer == [size |-> 0, type |-> "none", normalized |-> FALSE,
              stride |-> 0, offset |-> "none", buffer |-> 0]

\* A buffer object holds size bytes, seen as the vertices stored in them; a
\* vertex nothing was written to has indeterminate fields.
NoVert == [pos |-> <<Indeterminate, Indeterminate>>,
           uv |-> <<Indeterminate, Indeterminate>>, col |-> "indeterminate"]

NoBuffer == [size |-> 0, verts |-> <<>>]

NoProgram == [created |-> FALSE, linked |-> FALSE,
              attribs |-> <<>>, uniforms |-> <<>>]

NoTexture == [min |-> "GL_NEAREST_MIPMAP_LINEAR", mag |-> "GL_LINEAR",
              image |-> "none", width |-> 0, height |-> 0]

NoSource == [ok |-> FALSE, attribs |-> <<>>, uniforms |-> <<>>]

NoShaderObj == [kind |-> "none", source |-> NoSource, compiled |-> FALSE,
                attached |-> 0]

\* What a context offers to glewInit and glewIsSupported.
FullCaps == [glew |-> TRUE,
             supported |-> {"GL_VERSION_2_1", "GL_ARB_framebuffer_object"}]

DefaultGL ==
    [caps |-> FullCaps,
     program |-> 0, texture |-> 0, blend |-> FALSE,
     blendEq |-> "GL_FUNC_ADD", blendFunc |-> <<"GL_ONE", "GL_ZERO">>,
     scissor |-> FALSE, cull |-> FALSE, depth |-> FALSE,
     arrayBuffer |-> 0, lineWidth |-> 1,
     attribEnabled |-> {},
     attribPtr |-> [a \in 0..(MaxVertexAttribs - 1) |-> NoPointer],
     buffers |-> [h \in 1..MaxHandle |-> NoBuffer],
     bufferNames |-> {},
     programs |-> [h \in 1..MaxHandle |-> NoProgram],
     shaders |-> [h \in 1..MaxHandle |-> NoShaderObj],
     textures |-> [h \in 1..MaxHandle |-> NoTexture],
     textureNames |-> {}]

(***************************************************************************)
(* glGetError and gl::check_error.  err is the set of pending error flags, *)
(* each with the line of the call that raised it (a ghost field).          *)
(***************************************************************************)
\* A flag is set only when the flag of that code is clear.
RaiseError(e, code, line) ==
    IF code = "GL_NO_ERROR" \/ (\E x \in e : x.code = code) THEN e
    ELSE e \cup {[code |-> code, by |-> line]}

\* glGetError returns one pending code, clearing its flag: the outcomes.
glGetError(e) ==
    IF e = {} THEN {[code |-> "GL_NO_ERROR", by |-> 0, rest |-> e]}
    ELSE {[code |-> x.code, by |-> x.by, rest |-> e \ {x}] : x \in e}

\* The str chosen by the if-chain of check_error.
ErrorString(error) ==
    CASE error = "GL_INVALID_ENUM" -> "Invalid enum"
      [] error = "GL_INVALID_VALUE" -> "Invalid value"
      [] error = "GL_INVALID_OPERATION" -> "Invalid operation"
      [] error = "GL_INVALID_FRAMEBUFFER_OPERATION" -> "Invalid framebuffer operation"
      [] error = "GL_OUT_OF_MEMORY" -> "Out of memory"
      [] error = "GL_STACK_UNDERFLOW" -> "Stack underflow"
      [] error = "GL_STACK_OVERFLOW" -> "Stack overflow"
      [] OTHER -> "Undefined error"

\* check_error with no report for a code its if-chain has no branch for.
check_error_silent(lg, d, expr, file, line) ==
    IF d.code \in {"GL_NO_ERROR", "GL_TABLE_TOO_LARGE"} THEN lg
    ELSE Append(lg, [kind |-> "OpenGL Error", str |-> ErrorString(d.code),
                     file |-> file, line |-> line, expr |-> expr, by |-> d.by])

\* The log after check_error(expr, file, line) when glGetError returned d.
check_error(lg, d, expr, file, line) ==
    IF d.code = "GL_NO_ERROR" THEN lg
    ELSE Append(lg, [kind |-> "OpenGL Error", str |-> ErrorString(d.code),
                     file |-> file, line |-> line, expr |-> expr, by |-> d.by])

(***************************************************************************)
(* The driver.  Each operator gives the result of one GL call on context   *)
(* g: the context after it, the value it returns or writes through its out *)
(* parameter (ret), the value the caller is left with when the call fails  *)
(* (failret) and the error it raises.  A call that raises an error has no  *)
(* other effect.                                                           *)
(***************************************************************************)
Result(g, ret, failret) ==
    [gl |-> g, ret |-> ret, failret |-> failret, e |-> "GL_NO_ERROR",
     injected |-> FALSE]

Error(g, code, failret) ==
    [gl |-> g, ret |-> failret, failret |-> failret, e |-> code,
     injected |-> FALSE]

glGetIntegerv(g, pname, old) ==
    CASE pname = "GL_CURRENT_PROGRAM" -> Result(g, g.program, old)
      [] pname = "GL_TEXTURE_BINDING_2D" -> Result(g, g.texture, old)
      [] OTHER -> Error(g, "GL_INVALID_ENUM", old)

SetCap(g, cap, on) ==
    CASE cap = "GL_BLEND" -> Result([g EXCEPT !.blend = on], 0, 0)
      [] cap = "GL_CULL_FACE" -> Result([g EXCEPT !.cull = on], 0, 0)
      [] cap = "GL_DEPTH_TEST" -> Result([g EXCEPT !.depth = on], 0, 0)
      [] cap = "GL_SCISSOR_TEST" -> Result([g EXCEPT !.scissor = on], 0, 0)
      [] OTHER -> Error(g, "GL_INVALID_ENUM", 0)

glEnable(g, cap) == SetCap(g, cap, TRUE)

glDisable(g, cap) == SetCap(g, cap, FALSE)

glBlendEquation(g, mode) == Result([g EXCEPT !.blendEq = mode], 0, 0)

glBlendFunc(g, sfactor, dfactor) ==
    Result([g EXCEPT !.blendFunc = <<sfactor, dfactor>>], 0, 0)

\* Object names are handed out smallest unused first; an error when
\* none is left.
FreeNames(used) == {h \in 1..MaxHandle : ~used[h]}

Smallest(S) == CHOOSE h \in S : \A k \in S : h <= k

\* Binding an unused name creates the buffer object (GL 2.1).
glBindBuffer(g, buffer) ==
    IF buffer \in Handles
    THEN Result([g EXCEPT !.arrayBuffer = buffer,
                          !.bufferNames = IF buffer = 0 THEN @ ELSE @ \cup {buffer}],
                0, 0)
    ELSE Error(g, "GL_OUT_OF_MEMORY", 0)

\* glGenBuffers(1, &buffer): an unused name is written through the out
\* parameter and marked used; old is what the caller's variable holds.
glGenBuffers(g, old) ==
    LET free == FreeNames([h \in 1..MaxHandle |-> h \in g.bufferNames]) IN
    IF free = {} THEN Error(g, "GL_OUT_OF_MEMORY", old)
    ELSE Result([g EXCEPT !.bufferNames = @ \cup {Smallest(free)}], Smallest(free), old)

\* glBufferData(GL_ARRAY_BUFFER, size, 0, usage): a new data store of size
\* bytes with indeterminate contents replaces the one of the bound buffer.
glBufferData(g, size, usage) ==
    IF g.arrayBuffer = 0 THEN Error(g, "GL_INVALID_OPERATION", 0)
    ELSE IF size < 0 THEN Error(g, "GL_INVALID_VALUE", 0)
    ELSE Result([g EXCEPT !.buffers[g.arrayBuffer] =
                     [size |-> size,
                      verts |-> [k \in 1..(size \div SizeofImDrawVert) |-> NoVert]]],
                0, 0)

\* glBufferSubData(GL_ARRAY_BUFFER, offset, size, data): the bytes from
\* offset on are overwritten; a range that leaves the data store is an error.
glBufferSubData(g, offset, size, data) ==
    IF g.arrayBuffer = 0 THEN Error(g, "GL_INVALID_OPERATION", 0)
    ELSE IF offset < 0 \/ size < 0 \/ offset + size > g.buffers[g.arrayBuffer].size
    THEN Error(g, "GL_INVALID_VALUE", 0)
    ELSE LET first == offset \div SizeofImDrawVert
             count == size \div SizeofImDrawVert
         IN Result([g EXCEPT !.buffers[g.arrayBuffer].verts =
                        [k \in DOMAIN @ |->
                            IF k > first /\ k <= first + count THEN data[k - first]
                            ELSE @[k]]],
                   0, 0)

glUseProgram(g, program) ==
    IF program = 0 THEN Result([g EXCEPT !.program = 0], 0, 0)
    ELSE IF program \notin 1..MaxHandle \/ ~g.programs[program].created
         THEN Error(g, "GL_INVALID_VALUE", 0)
    ELSE IF ~g.programs[program].linked
         THEN Error(g, "GL_INVALID_OPERATION", 0)
    ELSE Result([g EXCEPT !.program = program], 0, 0)

\* The type and location of the active uniforms of program p: its table.
UniformAt(p, location) ==
    {u \in 1..Len(p.uniforms) : p.uniforms[u].location = location}

\* glUniform1f, glUniform2f, glUniformMatrix4fv, glUniform4f: location -1
\* is silently ignored; otherwise the location must be an active uniform of
\* the current program, of the type the call uploads.  The values a program
\* holds are not modelled: the trace records each upload and its outcome.
glUniform(g, tag, location, value) ==
    IF location = -1 THEN Result(g, 0, 0)
    ELSE IF g.program = 0 THEN Error(g, "GL_INVALID_OPERATION", 0)
    ELSE LET p == g.programs[g.program] IN
         IF \E u \in UniformAt(p, location) : p.uniforms[u].type = tag
         THEN Result(g, 0, 0)
         ELSE Error(g, "GL_INVALID_OPERATION", 0)

\* index is a GLuint: the sentinel -1 converts to 0xffffffff, which is not
\* below GL_MAX_VERTEX_ATTRIBS.
glEnableVertexAttribArray(g, index) ==
    IF index \in 0..(MaxVertexAttribs - 1)
    THEN Result([g EXCEPT !.attribEnabled = @ \cup {index}], 0, 0)
    ELSE Error(g, "GL_INVALID_VALUE", 0)

glVertexAttribPointer(g, index, size, type, normalized, stride, offset) ==
    IF index \in 0..(MaxVertexAttribs - 1)
    THEN Result([g EXCEPT !.attribPtr[index] =
                     [size |-> size, type |-> type, normalized |-> normalized,
                      stride |-> stride, offset |-> offset,
                      buffer |-> g.arrayBuffer]], 0, 0)
    ELSE Error(g, "GL_INVALID_VALUE", 0)

glLineWidth(g, width) ==
    IF width > 0 THEN Result([g EXCEPT !.lineWidth = width], 0, 0)
    ELSE Error(g, "GL_INVALID_VALUE", 0)

\* The framebuffer is not modelled: a draw command leaves the context as is.
glDrawArrays(g, mode, first, count) ==
    IF count < 0 THEN Error(g, "GL_INVALID_VALUE", 0) ELSE Result(g, 0, 0)

\* Binding an unused name creates the texture object (GL 2.1).
glBindTexture(g, texture) ==
    IF texture \in Handles
    THEN Result([g EXCEPT !.texture = texture,
                          !.textureNames = IF texture = 0 THEN @ ELSE @ \cup {texture}],
                0, 0)
    ELSE Error(g, "GL_OUT_OF_MEMORY", 0)

\* glGenTextures(1, &tex): an unused name is written through the out
\* parameter and marked used; old is what the caller's variable holds.
glGenTextures(g, old) ==
    LET free == FreeNames([h \in 1..MaxHandle |-> h \in g.textureNames]) IN
    IF free = {} THEN Error(g, "GL_OUT_OF_MEMORY", old)
    ELSE Result([g EXCEPT !.textureNames = @ \cup {Smallest(free)}], Smallest(free), old)

\* glTexParameteri(GL_TEXTURE_2D, pname, param) sets a filter of the texture
\* bound to the 2D target; the state of the default texture 0 is not kept.
glTexParameteri(g, pname, param) ==
    IF pname \notin {"GL_TEXTURE_MIN_FILTER", "GL_TEXTURE_MAG_FILTER"}
    THEN Error(g, "GL_INVALID_ENUM", 0)
    ELSE IF g.texture = 0 THEN Result(g, 0, 0)
    ELSE IF pname = "GL_TEXTURE_MIN_FILTER"
         THEN Result([g EXCEPT !.textures[g.texture].min = param], 0, 0)
         ELSE Result([g EXCEPT !.textures[g.texture].mag = param], 0, 0)

\* glTexImage2D(GL_TEXTURE_2D, 0, internalformat, width, height, 0, GL_RGBA,
\* GL_UNSIGNED_BYTE, data): the image of the texture bound to the 2D target.
glTexImage2D(g, internalformat, width, height) ==
    IF width < 0 \/ height < 0 THEN Error(g, "GL_INVALID_VALUE", 0)
    ELSE IF g.texture = 0 THEN Result(g, 0, 0)
    ELSE Result([g EXCEPT !.textures[g.texture] =
                     [@ EXCEPT !.image = internalformat, !.width = width,
                               !.height = height]], 0, 0)

glCreateProgram(g) ==
    LET free == FreeNames([h \in 1..MaxHandle |-> g.programs[h].created]) IN
    IF free = {} THEN Error(g, "GL_OUT_OF_MEMORY", 0)
    ELSE Result([g EXCEPT !.programs[Smallest(free)].created = TRUE],
                Smallest(free), 0)

glCreateShader(g, kind) ==
    LET free == FreeNames([h \in 1..MaxHandle |-> g.shaders[h].kind # "none"]) IN
    IF free = {} THEN Error(g, "GL_OUT_OF_MEMORY", 0)
    ELSE Result([g EXCEPT !.shaders[Smallest(free)].kind = kind],
                Smallest(free), 0)

IsShader(g, h) == h \in 1..MaxHandle /\ g.shaders[h].kind # "none"

IsProgram(g, h) == h \in 1..MaxHandle /\ g.programs[h].created

glShaderSource(g, shdr, source) ==
    IF IsShader(g, shdr)
    THEN Result([g EXCEPT !.shaders[shdr].source = source], 0, 0)
    ELSE Error(g, "GL_INVALID_VALUE", 0)

\* A compilation that fails raises no GL error: it clears the compile status.
glCompileShader(g, shdr) ==
    IF IsShader(g, shdr)
    THEN Result([g EXCEPT !.shaders[shdr].compiled = g.shaders[shdr].source.ok], 0, 0)
    ELSE Error(g, "GL_INVALID_VALUE", 0)

glAttachShader(g, program, shdr) ==
    IF ~IsProgram(g, program) \/ ~IsShader(g, shdr)
    THEN Error(g, "GL_INVALID_VALUE", 0)
    ELSE IF g.shaders[shdr].attached = program
    THEN Error(g, "GL_INVALID_OPERATION", 0)
    ELSE Result([g EXCEPT !.shaders[shdr].attached = program], 0, 0)

glGetShaderiv(g, shdr, pname, old) ==
    IF ~IsShader(g, shdr) THEN Error(g, "GL_INVALID_VALUE", old)
    ELSE IF pname # "GL_COMPILE_STATUS" THEN Error(g, "GL_INVALID_ENUM", old)
    ELSE Result(g, IF g.shaders[shdr].compiled THEN 1 ELSE 0, old)

glGetShaderInfoLog(g, shdr) ==
    IF IsShader(g, shdr) THEN Result(g, 0, 0) ELSE Error(g, "GL_INVALID_VALUE", 0)

Attached(g, program) == {h \in 1..MaxHandle : g.shaders[h].attached = program}

\* The location the linker gives the k-th declaration of a table.
Located(decls) == [k \in 1..Len(decls) |-> [decls[k] EXCEPT !.location = k - 1]]

\* Linking succeeds when a vertex and a fragment shader are attached and all
\* attached shaders compiled; the active attributes are the vertex shader's.
glLinkProgram(g, program) ==
    IF ~IsProgram(g, program) THEN Error(g, "GL_INVALID_VALUE", 0)
    ELSE LET att == Attached(g, program)
             ok == /\ \A h \in att : g.shaders[h].compiled
                   /\ \E h \in att : g.shaders[h].kind = "GL_VERTEX_SHADER"
                   /\ \E h \in att : g.shaders[h].kind = "GL_FRAGMENT_SHADER"
         IN  IF ~ok
             THEN Result([g EXCEPT !.programs[program].linked = FALSE], 0, 0)
             ELSE LET v == CHOOSE h \in att : g.shaders[h].kind = "GL_VERTEX_SHADER"
                  IN  Result([g EXCEPT !.programs[program].linked = TRUE,
                                 !.programs[program].attribs =
                                     Located(g.shaders[v].source.attribs),
                                 !.programs[program].uniforms =
                                     Located(g.shaders[v].source.uniforms)],
                             0, 0)

\* glGetAttribLocation and glGetUniformLocation on table decls of program.
LocationOf(g, program, decls, name) ==
    IF ~IsProgram(g, program) \/ ~g.programs[program].linked
    THEN Error(g, "GL_INVALID_OPERATION", -1)
    ELSE IF \E k \in 1..Len(decls) : decls[k].name = name
    THEN Result(g, decls[CHOOSE k \in 1..Len(decls) : decls[k].name = name].location, -1)
    ELSE Result(g, -1, -1)

glGetAttribLocation(g, program, name) ==
    LocationOf(g, program,
               IF IsProgram(g, program) THEN g.programs[program].attribs ELSE <<>>, name)

glGetUniformLocation(g, program, name) ==
    LocationOf(g, program,
               IF IsProgram(g, program) THEN g.programs[program].uniforms ELSE <<>>, name)

\* The outcomes of a wrapped call whose result by the driver's rules is r:
\* r itself, and while the failure budget lasts, the call failing with an
\* error and no effect.
Outcomes(r) ==
    {r} \cup
    (IF budget > 0 /\ r.e = "GL_NO_ERROR"
     THEN {[gl |-> gl, ret |-> r.failret, failret |-> r.failret, e |-> c,
            injected |-> TRUE] : c \in InjectCodes}
     ELSE {})

(***************************************************************************)
(* The call stack.                                                         *)
(***************************************************************************)
Frame(fn, line) == [fn |-> fn, line |-> line]

Idle == pc = <<>>

At(fn, line) == pc # <<>> /\ pc[Len(pc)] = Frame(fn, line)

Goto(line) == pc' = [pc EXCEPT ![Len(pc)].line = line]

Call(fn, line, back) ==
    pc' = Append([pc EXCEPT ![Len(pc)].line = back], Frame(fn, line))

Return == pc' = SubSeq(pc, 1, Len(pc) - 1)

\* The text of a wrapped call, with the slot-table entries it reads (ghost).
Expr(fn, args, reads) == [fn |-> fn, args |-> args, reads |-> reads]

\* The statement alone, its check_error left out: the error it raises stays
\* pending.
GLCHKNoCheck(o, expr, line) ==
    /\ gl' = o.gl
    /\ trace' = Append(trace, [fn |-> expr.fn, args |-> expr.args, line |-> line,
                               reads |-> expr.reads, program |-> gl.program,
                               e |-> o.e, ret |-> o.ret])
    /\ budget' = IF o.injected THEN budget - 1 ELSE budget
    /\ err' = RaiseError(err, o.e, line)
    /\ log' = log

(***************************************************************************)
(* #define GLCHK(stmt) stmt; gl::check_error(#stmt, __FILE__, __LINE__)    *)
(* o is the outcome of stmt; check_error then drains one pending error.    *)
(***************************************************************************)
GLCHK(o, expr, line) ==
    /\ gl' = o.gl
    /\ trace' = Append(trace, [fn |-> expr.fn, args |-> expr.args, line |-> line,
                               reads |-> expr.reads, program |-> gl.program,
                               e |-> o.e, ret |-> o.ret])
    /\ budget' = IF o.injected THEN budget - 1 ELSE budget
    /\ \E d \in glGetError(RaiseError(err, o.e, line)) :
         /\ err' = d.rest
         /\ log' = check_error(log, d, expr, "gl.h", line)

(***************************************************************************)
(* Locals of the running operation and the inputs of the last call.        *)
(***************************************************************************)
NoLocals ==
    [last_program |-> Indeterminate, last_texture |-> Indeterminate,
     i |-> 0, a |-> 0,
     vert_handle |-> Indeterminate, frag_handle |-> Indeterminate,
     handle |-> Indeterminate, type |-> "none",
     compilation_status |-> Indeterminate,
     tex |-> Indeterminate, ret |-> FALSE]

NoInput == [fn |-> "none"]

\* Entering an operation of the layer from the application; pre keeps the
\* context and the objects the operation is entered with.  The caller says
\* what becomes of mesh.
Enter(fn, line, input) ==
    /\ Idle
    /\ pc' = <<Frame(fn, line)>>
    /\ inp' = input
    /\ loc' = NoLocals
    /\ log' = <<>>
    /\ trace' = <<>>
    /\ pre' = [gl |-> gl, shader |-> shader, mesh |-> mesh']
    /\ done' = "none"
    /\ UNCHANGED <<gl, err, shader, budget>>

\* Returning from the outermost operation to the application.
Leave(fn) ==
    /\ Return
    /\ done' = IF Len(pc) = 1 THEN fn ELSE done

(***************************************************************************)
(* bool gl::init().  glewInit succeeds when the function pointers can be   *)
(* resolved on the context; glewIsSupported tells whether the context      *)
(* offers a version or an extension.  Neither is a wrapped call: trace     *)
(* records them with no error.                                             *)
(***************************************************************************)
\* A line printf writes.
Printf(kind, str, file, line) ==
    [kind |-> kind, str |-> str, file |-> file, line |-> line,
     expr |-> Expr("none", <<>>, {}), by |-> 0]

glewInit(g) == g.caps.glew

glewIsSupported(g, name) == name \in g.caps.supported

Probe(fn, args, line, ok) ==
    [fn |-> fn, args |-> args, line |-> line, reads |-> {}, program |-> gl.program,
     e |-> "GL_NO_ERROR", ret |-> IF ok THEN 1 ELSE 0]

\* The application calls init; again tells whether an earlier call of init
\* was the last operation to return.
init_call ==
    /\ UNCHANGED mesh
    /\ Enter("init", 56, [fn |-> "init", again |-> done = "init"])

\* One check of init at line: when it fails, the printf and return false
\* of the two lines after it; otherwise on to line next.
InitCheck(line, fn, args, ok, str, next) ==
    /\ At("init", line)
    /\ trace' = Append(trace, Probe(fn, args, line, ok))
    /\ IF ok
       THEN /\ Goto(next)
            /\ UNCHANGED <<log, loc, done>>
       ELSE /\ log' = Append(log, Printf("init", str, "gl.h", line + 1))
            /\ loc' = [loc EXCEPT !.ret = FALSE]
            /\ Leave("init")
    /\ UNCHANGED <<gl, err, shader, mesh, inp, pre, budget>>

\* The second check running on after it failed, its return left out.
init_62_no_return ==
    /\ At("init", 62)
    /\ trace' = Append(trace, Probe("glewIsSupported", <<"GL_VERSION_2_1">>, 62,
                                    glewIsSupported(gl, "GL_VERSION_2_1")))
    /\ log' = IF glewIsSupported(gl, "GL_VERSION_2_1") THEN log
              ELSE Append(log, Printf("init", "This hardware doesn't support OpenGL 2.1.",
                                      "gl.h", 63))
    /\ Goto(68)
    /\ UNCHANGED <<gl, err, shader, mesh, loc, inp, pre, done, budget>>

init_56 ==
    InitCheck(56, "glewInit", <<>>, glewInit(gl), "GLEW initialization failed.", 62)

init_62 ==
    InitCheck(62, "glewIsSupported", <<"GL_VERSION_2_1">>,
              glewIsSupported(gl, "GL_VERSION_2_1"),
              "This hardware doesn't support OpenGL 2.1.", 68)

init_68 ==
    InitCheck(68, "glewIsSupported", <<"GL_ARB_framebuffer_object">>,
              glewIsSupported(gl, "GL_ARB_framebuffer_object"),
              "This hardware doesn't support OpenGL extension GL_ARB_framebuffer_object.",
              73)

\* Line 73 returning false.
init_73_false ==
    /\ At("init", 73)
    /\ loc' = [loc EXCEPT !.ret = FALSE]
    /\ Leave("init")
    /\ UNCHANGED <<gl, err, shader, mesh, inp, log, trace, pre, budget>>

init_73 ==
    /\ At("init", 73)
    /\ loc' = [loc EXCEPT !.ret = TRUE]
    /\ Leave("init")
    /\ UNCHANGED <<gl, err, shader, mesh, inp, log, trace, pre, budget>>

init == init_56 \/ init_62 \/ init_68 \/ init_73

(***************************************************************************)
(* internal void print_compilation_errors(uint32 handle, const char* type, *)
(*                                        const char* file, int32 line)    *)
(***************************************************************************)
print_compilation_errors_99 ==
    /\ At("print_compilation_errors", 99)
    /\ \E handle \in Read(loc.handle, Handles) :
       \E o \in Outcomes(glGetShaderiv(gl, handle, "GL_COMPILE_STATUS",
                                       loc.compilation_status)) :
         /\ GLCHK(o, Expr("glGetShaderiv", <<handle, "GL_COMPILE_STATUS">>, {}), 99)
         /\ loc' = [loc EXCEPT !.compilation_status = o.ret]
    /\ Goto(100)
    /\ UNCHANGED <<shader, mesh, inp, pre, done>>

\* Line 101 reached whatever the compile status is.
print_compilation_errors_101_always ==
    /\ At("print_compilation_errors", 100)
    /\ log' = Append(log, Printf("Compilation error", loc.type, inp.file, inp.line))
    /\ Goto(105)
    /\ UNCHANGED <<gl, err, shader, mesh, loc, inp, trace, pre, done, budget>>

\* if (compilation_status != GL_TRUE): the printf of line 101.
print_compilation_errors_101 ==
    /\ At("print_compilation_errors", 100)
    /\ \E status \in Read(loc.compilation_status, {0, 1}) : status # 1
    /\ log' = Append(log, Printf("Compilation error", loc.type, inp.file, inp.line))
    /\ Goto(105)
    /\ UNCHANGED <<gl, err, shader, mesh, loc, inp, trace, pre, done, budget>>

print_compilation_errors_105 ==
    /\ At("print_compilation_errors", 105)
    /\ \E handle \in Read(loc.handle, Handles) :
       \E o \in Outcomes(glGetShaderInfoLog(gl, handle)) :
         /\ \E d \in glGetError(RaiseError(err, o.e, 105)) :
              /\ err' = d.rest
              /\ log' = Append(check_error(log, d, Expr("glGetShaderInfoLog",
                                                          <<handle>>, {}), "gl.h", 105),
                               Printf("Info log", loc.type, inp.file, inp.line))
         /\ gl' = o.gl
         /\ budget' = IF o.injected THEN budget - 1 ELSE budget
         /\ trace' = Append(trace, [fn |-> "glGetShaderInfoLog", args |-> <<handle>>,
                                    line |-> 105, reads |-> {},
                                    program |-> gl.program, e |-> o.e,
                                    ret |-> o.ret])
    /\ Leave("print_compilation_errors")
    /\ UNCHANGED <<shader, mesh, loc, inp, pre>>

print_compilation_errors_return ==
    /\ At("print_compilation_errors", 100)
    /\ \E status \in Read(loc.compilation_status, {0, 1}) : ~(status # 1)
    /\ Leave("print_compilation_errors")
    /\ UNCHANGED <<gl, err, shader, mesh, loc, inp, log, trace, pre, budget>>

print_compilation_errors ==
    \/ print_compilation_errors_99
    \/ print_compilation_errors_101
    \/ print_compilation_errors_105
    \/ print_compilation_errors_return

(***************************************************************************)
(* void gl::compile_shader(Shader& shader, const char* file, int line,     *)
(*                         const char* vert, const char* frag,             *)
(*                         int32 attrib_count, int32 uniform_count, ...)   *)
(* inp.names are the variadic arguments: the attribute names, then the     *)
(* uniform names.                                                          *)
(***************************************************************************)
CompileInput(vert, frag, attribs, uniforms) ==
    [fn |-> "compile_shader", file |-> "papaya.cpp", line |-> 1,
     vert |-> vert, frag |-> frag,
     attrib_count |-> Len(attribs), uniform_count |-> Len(uniforms),
     names |-> attribs \o uniforms]

compile_shader_call(vert, frag, attribs, uniforms) ==
    /\ UNCHANGED mesh
    /\ Enter("compile_shader", 115, CompileInput(vert, frag, attribs, uniforms))

\* A wrapped statement of compile_shader that assigns nothing.
CompileStmt(line, r, expr, next) ==
    /\ At("compile_shader", line)
    /\ \E o \in Outcomes(r) : GLCHK(o, expr, line)
    /\ Goto(next)
    /\ UNCHANGED <<shader, mesh, loc, inp, pre, done>>

compile_shader_115 ==
    /\ At("compile_shader", 115)
    /\ \E o \in Outcomes(glCreateProgram(gl)) :
         /\ GLCHK(o, Expr("glCreateProgram", <<>>, {}), 115)
         /\ shader' = [shader EXCEPT !.handle = o.ret]
    /\ Goto(116)
    /\ UNCHANGED <<mesh, loc, inp, pre, done>>

compile_shader_116 ==
    /\ At("compile_shader", 116)
    /\ \E o \in Outcomes(glCreateShader(gl, "GL_VERTEX_SHADER")) :
         /\ GLCHK(o, Expr("glCreateShader", <<"GL_VERTEX_SHADER">>, {}), 116)
         /\ loc' = [loc EXCEPT !.vert_handle = o.ret]
    /\ Goto(117)
    /\ UNCHANGED <<shader, mesh, inp, pre, done>>

compile_shader_117 ==
    /\ At("compile_shader", 117)
    /\ \E o \in Outcomes(glCreateShader(gl, "GL_FRAGMENT_SHADER")) :
         /\ GLCHK(o, Expr("glCreateShader", <<"GL_FRAGMENT_SHADER">>, {}), 117)
         /\ loc' = [loc EXCEPT !.frag_handle = o.ret]
    /\ Goto(119)
    /\ UNCHANGED <<shader, mesh, inp, pre, done>>

compile_shader_119 ==
    CompileStmt(119, glShaderSource(gl, loc.vert_handle, inp.vert),
                Expr("glShaderSource", <<loc.vert_handle, "vert">>, {}), 120)

compile_shader_120 ==
    CompileStmt(120, glShaderSource(gl, loc.frag_handle, inp.frag),
                Expr("glShaderSource", <<loc.frag_handle, "frag">>, {}), 121)

compile_shader_121 ==
    CompileStmt(121, glCompileShader(gl, loc.vert_handle),
                Expr("glCompileShader", <<loc.vert_handle>>, {}), 122)

compile_shader_122 ==
    CompileStmt(122, glCompileShader(gl, loc.frag_handle),
                Expr("glCompileShader", <<loc.frag_handle>>, {}), 123)

compile_shader_123 ==
    CompileStmt(123, glAttachShader(gl, shader.handle, loc.vert_handle),
                Expr("glAttachShader", <<shader.handle, loc.vert_handle>>, {}), 124)

compile_shader_124 ==
    CompileStmt(124, glAttachShader(gl, shader.handle, loc.frag_handle),
                Expr("glAttachShader", <<shader.handle, loc.frag_handle>>, {}), 126)

compile_shader_126 ==
    /\ At("compile_shader", 126)
    /\ Call("print_compilation_errors", 99, 127)
    /\ loc' = [loc EXCEPT !.handle = loc.vert_handle, !.type = "vertex",
                          !.compilation_status = Indeterminate]
    /\ UNCHANGED <<gl, err, shader, mesh, inp, log, trace, pre, done, budget>>

compile_shader_127 ==
    /\ At("compile_shader", 127)
    /\ Call("print_compilation_errors", 99, 129)
    /\ loc' = [loc EXCEPT !.handle = loc.frag_handle, !.type = "fragment",
                          !.compilation_status = Indeterminate]
    /\ UNCHANGED <<gl, err, shader, mesh, inp, log, trace, pre, done, budget>>

\* Lines 129-132 with the two counts stored into each other's field.
compile_shader_129_swapped ==
    /\ At("compile_shader", 129)
    /\ \E o \in Outcomes(glLinkProgram(gl, shader.handle)) :
         GLCHK(o, Expr("glLinkProgram", <<shader.handle>>, {}), 129)
    /\ shader' = [shader EXCEPT !.attrib_count = inp.uniform_count,
                                !.uniform_count = inp.attrib_count]
    /\ loc' = [loc EXCEPT !.i = 0]
    /\ Goto(135)
    /\ UNCHANGED <<mesh, inp, pre, done>>

\* glLinkProgram, then the two assignments of lines 131-132.
compile_shader_129 ==
    /\ At("compile_shader", 129)
    /\ \E o \in Outcomes(glLinkProgram(gl, shader.handle)) :
         GLCHK(o, Expr("glLinkProgram", <<shader.handle>>, {}), 129)
    /\ shader' = [shader EXCEPT !.attrib_count = inp.attrib_count,
                                !.uniform_count = inp.uniform_count]
    /\ loc' = [loc EXCEPT !.i = 0]
    /\ Goto(135)
    /\ UNCHANGED <<mesh, inp, pre, done>>

NotFound(lg, location, what, name) ==
    IF location = -1 THEN Append(lg, Printf(what, name, inp.file, inp.line)) ELSE lg

\* One iteration of the loop over the attribute names.
compile_shader_attrib ==
    /\ At("compile_shader", 135)
    /\ loc.i < inp.attrib_count
    /\ LET name == inp.names[loc.i + 1] IN
       \E o \in Outcomes(glGetAttribLocation(gl, shader.handle, name)) :
       \E d \in glGetError(RaiseError(err, o.e, 137)) :
         /\ gl' = o.gl
         /\ budget' = IF o.injected THEN budget - 1 ELSE budget
         /\ trace' = Append(trace, [fn |-> "glGetAttribLocation",
                                    args |-> <<shader.handle, name>>, line |-> 137,
                                    reads |-> {}, program |-> gl.program, e |-> o.e,
                                    ret |-> o.ret])
         /\ shader' = [shader EXCEPT !.attribs[loc.i] = o.ret]
         /\ err' = d.rest
         /\ log' = NotFound(check_error(log, d, Expr("glGetAttribLocation",
                                                      <<shader.handle, name>>, {}),
                                        "gl.h", 137),
                            o.ret, "Attribute not found", name)
    /\ loc' = [loc EXCEPT !.i = @ + 1]
    /\ UNCHANGED <<pc, mesh, inp, pre, done>>

compile_shader_144 ==
    /\ At("compile_shader", 135)
    /\ ~(loc.i < inp.attrib_count)
    /\ loc' = [loc EXCEPT !.i = 0]
    /\ Goto(144)
    /\ UNCHANGED <<gl, err, shader, mesh, inp, log, trace, pre, done, budget>>

\* One iteration of the loop over the uniform names.
compile_shader_uniform ==
    /\ At("compile_shader", 144)
    /\ loc.i < inp.uniform_count
    /\ LET name == inp.names[inp.attrib_count + loc.i + 1] IN
       \E o \in Outcomes(glGetUniformLocation(gl, shader.handle, name)) :
       \E d \in glGetError(RaiseError(err, o.e, 146)) :
         /\ gl' = o.gl
         /\ budget' = IF o.injected THEN budget - 1 ELSE budget
         /\ trace' = Append(trace, [fn |-> "glGetUniformLocation",
                                    args |-> <<shader.handle, name>>, line |-> 146,
                                    reads |-> {}, program |-> gl.program, e |-> o.e,
                                    ret |-> o.ret])
         /\ shader' = [shader EXCEPT !.uniforms[loc.i] = o.ret]
         /\ err' = d.rest
         /\ log' = NotFound(check_error(log, d, Expr("glGetUniformLocation",
                                                      <<shader.handle, name>>, {}),
                                        "gl.h", 146),
                            o.ret, "Uniform not found", name)
    /\ loc' = [loc EXCEPT !.i = @ + 1]
    /\ UNCHANGED <<pc, mesh, inp, pre, done>>

compile_shader_return ==
    /\ At("compile_shader", 144)
    /\ ~(loc.i < inp.uniform_count)
    /\ Leave("compile_shader")
    /\ loc' = NoLocals
    /\ UNCHANGED <<gl, err, shader, mesh, inp, log, trace, pre, budget>>

compile_shader ==
    \/ compile_shader_115 \/ compile_shader_116 \/ compile_shader_117
    \/ compile_shader_119 \/ compile_shader_120 \/ compile_shader_121
    \/ compile_shader_122 \/ compile_shader_123 \/ compile_shader_124
    \/ compile_shader_126 \/ compile_shader_127 \/ compile_shader_129
    \/ compile_shader_attrib \/ compile_shader_144 \/ compile_shader_uniform
    \/ compile_shader_return
    \/ print_compilation_errors

(***************************************************************************)
(* void gl::set_vertex_attribs(Shader& shader)                             *)
(***************************************************************************)
AttribStride == SizeofImDrawVert

set_vertex_attribs_enable ==
    /\ At("set_vertex_attribs", 157)
    /\ loc.a < shader.attrib_count
    /\ \E index \in Read(shader.attribs[loc.a], Garbage) :
       \E o \in Outcomes(glEnableVertexAttribArray(gl, index)) :
         GLCHK(o, Expr("glEnableVertexAttribArray", <<index>>,
                       {<<"attribs", loc.a>>}), 158)
    /\ loc' = [loc EXCEPT !.a = @ + 1]
    /\ UNCHANGED <<pc, shader, mesh, inp, pre, done>>

set_vertex_attribs_enabled ==
    /\ At("set_vertex_attribs", 157)
    /\ ~(loc.a < shader.attrib_count)
    /\ Goto(163)
    /\ UNCHANGED <<gl, err, shader, mesh, loc, inp, log, trace, pre, done, budget>>

set_vertex_attribs_position ==
    /\ At("set_vertex_attribs", 163)
    /\ \E index \in Read(shader.attribs[0], Garbage) :
       \E o \in Outcomes(glVertexAttribPointer(gl, index, 2, "GL_FLOAT", FALSE,
                                               AttribStride, "pos")) :
         GLCHK(o, Expr("glVertexAttribPointer",
                       <<index, 2, "GL_FLOAT", FALSE, AttribStride, "pos">>,
                       {<<"attribs", 0>>}), 163)
    /\ Goto(167)
    /\ UNCHANGED <<shader, mesh, loc, inp, pre, done>>

set_vertex_attribs_uv ==
    /\ At("set_vertex_attribs", 167)
    /\ \E index \in Read(shader.attribs[1], Garbage) :
       \E o \in Outcomes(glVertexAttribPointer(gl, index, 2, "GL_FLOAT", FALSE,
                                               AttribStride, "uv")) :
         GLCHK(o, Expr("glVertexAttribPointer",
                       <<index, 2, "GL_FLOAT", FALSE, AttribStride, "uv">>,
                       {<<"attribs", 1>>}), 167)
    /\ Goto(170)
    /\ UNCHANGED <<shader, mesh, loc, inp, pre, done>>

set_vertex_attribs_color ==
    /\ At("set_vertex_attribs", 170)
    /\ shader.attrib_count > 2
    /\ \E index \in Read(shader.attribs[2], Garbage) :
       \E o \in Outcomes(glVertexAttribPointer(gl, index, 4, "GL_UNSIGNED_BYTE",
                                               TRUE, AttribStride, "col")) :
         GLCHK(o, Expr("glVertexAttribPointer",
                       <<index, 4, "GL_UNSIGNED_BYTE", TRUE, AttribStride, "col">>,
                       {<<"attribs", 2>>}), 172)
    /\ Leave("set_vertex_attribs")
    /\ UNCHANGED <<shader, mesh, loc, inp, pre>>

set_vertex_attribs_return ==
    /\ At("set_vertex_attribs", 170)
    /\ ~(shader.attrib_count > 2)
    /\ Leave("set_vertex_attribs")
    /\ UNCHANGED <<gl, err, shader, mesh, loc, inp, log, trace, pre, budget>>

set_vertex_attribs ==
    \/ set_vertex_attribs_enable
    \/ set_vertex_attribs_enabled
    \/ set_vertex_attribs_position
    \/ set_vertex_attribs_uv
    \/ set_vertex_attribs_color
    \/ set_vertex_attribs_return

(***************************************************************************)
(* void gl::draw_mesh(Mesh& mesh, Shader& shader, bool scissor,            *)
(*                    int32 uniform_count, ...)                            *)
(* The variadic arguments are inp.args, a sequence of (type tag, value)    *)
(* pairs; inp.uniform_count is the count the caller passes.                *)
(***************************************************************************)
DrawInput(scissor, args) ==
    [fn |-> "draw_mesh", scissor |-> scissor,
     uniform_count |-> Len(args), args |-> args]

\* The application sets the topology flag of the mesh and draws it.
draw_mesh_call(scissor, is_line_loop, args) ==
    /\ mesh' = [mesh EXCEPT !.is_line_loop = is_line_loop]
    /\ Enter("draw_mesh", 211, DrawInput(scissor, args))

\* A wrapped statement of draw_mesh that assigns nothing: r is the driver's
\* result of the call at line, next the line that follows.
DrawStmt(line, r, expr, next) ==
    /\ At("draw_mesh", line)
    /\ \E o \in Outcomes(r) : GLCHK(o, expr, line)
    /\ Goto(next)
    /\ UNCHANGED <<shader, mesh, loc, inp, pre, done>>

draw_mesh_211 ==
    /\ At("draw_mesh", 211)
    /\ \E o \in Outcomes(glGetIntegerv(gl, "GL_CURRENT_PROGRAM", loc.last_program)) :
         /\ GLCHK(o, Expr("glGetIntegerv", <<"GL_CURRENT_PROGRAM">>, {}), 211)
         /\ loc' = [loc EXCEPT !.last_program = o.ret]
    /\ Goto(212)
    /\ UNCHANGED <<shader, mesh, inp, pre, done>>

draw_mesh_212 ==
    /\ At("draw_mesh", 212)
    /\ \E o \in Outcomes(glGetIntegerv(gl, "GL_TEXTURE_BINDING_2D", loc.last_texture)) :
         /\ GLCHK(o, Expr("glGetIntegerv", <<"GL_TEXTURE_BINDING_2D">>, {}), 212)
         /\ loc' = [loc EXCEPT !.last_texture = o.ret]
    /\ Goto(213)
    /\ UNCHANGED <<shader, mesh, inp, pre, done>>

draw_mesh_213 ==
    DrawStmt(213, glEnable(gl, "GL_BLEND"), Expr("glEnable", <<"GL_BLEND">>, {}), 214)

draw_mesh_214 ==
    DrawStmt(214, glBlendEquation(gl, "GL_FUNC_ADD"),
             Expr("glBlendEquation", <<"GL_FUNC_ADD">>, {}), 215)

draw_mesh_215 ==
    DrawStmt(215, glBlendFunc(gl, "GL_SRC_ALPHA", "GL_ONE_MINUS_SRC_ALPHA"),
             Expr("glBlendFunc", <<"GL_SRC_ALPHA", "GL_ONE_MINUS_SRC_ALPHA">>, {}), 216)

\* Line 216 enabling face culling instead of disabling it.
draw_mesh_216_enable ==
    DrawStmt(216, glEnable(gl, "GL_CULL_FACE"),
             Expr("glEnable", <<"GL_CULL_FACE">>, {}), 217)

draw_mesh_216 ==
    DrawStmt(216, glDisable(gl, "GL_CULL_FACE"),
             Expr("glDisable", <<"GL_CULL_FACE">>, {}), 217)

draw_mesh_217 ==
    DrawStmt(217, glDisable(gl, "GL_DEPTH_TEST"),
             Expr("glDisable", <<"GL_DEPTH_TEST">>, {}), 218)

draw_mesh_218 ==
    /\ At("draw_mesh", 218)
    /\ inp.scissor
    /\ DrawStmt(218, glEnable(gl, "GL_SCISSOR_TEST"),
                Expr("glEnable", <<"GL_SCISSOR_TEST">>, {}), 221)

draw_mesh_219 ==
    /\ At("draw_mesh", 218)
    /\ ~inp.scissor
    /\ DrawStmt(218, glDisable(gl, "GL_SCISSOR_TEST"),
                Expr("glDisable", <<"GL_SCISSOR_TEST">>, {}), 221)

draw_mesh_221 ==
    /\ At("draw_mesh", 221)
    /\ \E buffer \in Read(mesh.vbo_handle, Handles) :
         DrawStmt(221, glBindBuffer(gl, buffer),
                  Expr("glBindBuffer", <<"GL_ARRAY_BUFFER", buffer>>, {}), 222)

draw_mesh_222 ==
    /\ At("draw_mesh", 222)
    /\ \E program \in Read(shader.handle, Handles) :
         DrawStmt(222, glUseProgram(gl, program),
                  Expr("glUseProgram", <<program>>, {}), 228)

\* The switch with the calls of the Float and the Vec2 case exchanged.
UploadCallExchanged(type) ==
    CASE type = "UniformType_Float" -> "glUniform2f"
      [] type = "UniformType_Matrix4" -> "glUniformMatrix4fv"
      [] type = "UniformType_Vec2" -> "glUniform1f"
      [] type = "UniformType_Color" -> "glUniform4f"

\* The upload call each case of the switch issues.
UploadCall(type) ==
    CASE type = "UniformType_Float" -> "glUniform1f"
      [] type = "UniformType_Matrix4" -> "glUniformMatrix4fv"
      [] type = "UniformType_Vec2" -> "glUniform2f"
      [] type = "UniformType_Color" -> "glUniform4f"

\* One iteration of the loop over the uniform arguments.
draw_mesh_uniform ==
    /\ At("draw_mesh", 228)
    /\ loc.i < inp.uniform_count
    /\ LET arg == inp.args[loc.i + 1] IN
       \E location \in Read(shader.uniforms[loc.i], Garbage) :
       \E o \in Outcomes(glUniform(gl, arg.type, location, arg.value)) :
         GLCHK(o, Expr(UploadCall(arg.type), <<location, arg.value>>,
                       {<<"uniforms", loc.i>>}), 228)
    /\ loc' = [loc EXCEPT !.i = @ + 1]
    /\ UNCHANGED <<pc, shader, mesh, inp, pre, done>>

draw_mesh_256 ==
    /\ At("draw_mesh", 228)
    /\ ~(loc.i < inp.uniform_count)
    /\ Call("set_vertex_attribs", 157, 258)
    /\ UNCHANGED <<gl, err, shader, mesh, loc, inp, log, trace, pre, done, budget>>

draw_mesh_258 ==
    DrawStmt(258, glLineWidth(gl, 2), Expr("glLineWidth", <<2>>, {}), 259)

\* The topology choice of line 259 with its two branches exchanged.
DrawModeExchanged(is_line_loop) ==
    IF is_line_loop THEN "GL_TRIANGLES" ELSE "GL_LINE_LOOP"

DrawMode(is_line_loop) == IF is_line_loop THEN "GL_LINE_LOOP" ELSE "GL_TRIANGLES"

draw_mesh_259 ==
    /\ At("draw_mesh", 259)
    /\ \E count \in Read(mesh.index_count, 0..QuadVerts) :
         DrawStmt(259, glDrawArrays(gl, DrawMode(mesh.is_line_loop), 0, count),
                  Expr("glDrawArrays", <<DrawMode(mesh.is_line_loop), 0, count>>, {}),
                  263)

draw_mesh_263 ==
    DrawStmt(263, glBindBuffer(gl, 0), Expr("glBindBuffer", <<"GL_ARRAY_BUFFER", 0>>, {}),
             264)

draw_mesh_264 ==
    /\ At("draw_mesh", 264)
    /\ \E program \in Read(loc.last_program, Handles) :
         DrawStmt(264, glUseProgram(gl, program),
                  Expr("glUseProgram", <<program>>, {}), 265)

\* Line 265 followed directly by line 267, line 266 left out.
draw_mesh_265_then_267 ==
    DrawStmt(265, glDisable(gl, "GL_SCISSOR_TEST"),
             Expr("glDisable", <<"GL_SCISSOR_TEST">>, {}), 267)

draw_mesh_265 ==
    DrawStmt(265, glDisable(gl, "GL_SCISSOR_TEST"),
             Expr("glDisable", <<"GL_SCISSOR_TEST">>, {}), 266)

draw_mesh_266 ==
    DrawStmt(266, glDisable(gl, "GL_BLEND"), Expr("glDisable", <<"GL_BLEND">>, {}), 267)

draw_mesh_267 ==
    /\ At("draw_mesh", 267)
    /\ \E texture \in Read(loc.last_texture, Handles) :
       \E o \in Outcomes(glBindTexture(gl, texture)) :
         GLCHK(o, Expr("glBindTexture", <<"GL_TEXTURE_2D", texture>>, {}), 267)
    /\ Leave("draw_mesh")
    /\ loc' = NoLocals
    /\ UNCHANGED <<shader, mesh, inp, pre>>

draw_mesh ==
    \/ draw_mesh_211 \/ draw_mesh_212 \/ draw_mesh_213 \/ draw_mesh_214
    \/ draw_mesh_215 \/ draw_mesh_216 \/ draw_mesh_217 \/ draw_mesh_218
    \/ draw_mesh_219 \/ draw_mesh_221 \/ draw_mesh_222 \/ draw_mesh_uniform
    \/ draw_mesh_256 \/ draw_mesh_258 \/ draw_mesh_259 \/ draw_mesh_263
    \/ draw_mesh_264 \/ draw_mesh_265 \/ draw_mesh_266 \/ draw_mesh_267
    \/ set_vertex_attribs

(***************************************************************************)
(* The vertices transform_quad computes (lines 190-202), in buffer order.  *)
(***************************************************************************)
Vert(x, y, u, v) == [pos |-> <<x, y>>, uv |-> <<u, v>>, col |-> "0xffffffff"]

\* The vertices with the second triangle's first two vertices exchanged.
QuadVerticesFlipped(pos, size) ==
    LET x1 == pos[1]
        x2 == pos[1] + size[1]
        y1 == pos[2]
        y2 == pos[2] + size[2]
    IN  <<Vert(x1, y2, 0, 1), Vert(x1, y1, 0, 0), Vert(x2, y2, 1, 1),
          Vert(x2, y2, 1, 1), Vert(x2, y1, 1, 0), Vert(x1, y1, 0, 0)>>

QuadVertices(pos, size) ==
    LET x1 == pos[1]
        x2 == pos[1] + size[1]
        y1 == pos[2]
        y2 == pos[2] + size[2]
    IN  <<Vert(x1, y2, 0, 1), Vert(x1, y1, 0, 0), Vert(x2, y2, 1, 1),
          Vert(x2, y1, 1, 0), Vert(x2, y2, 1, 1), Vert(x1, y1, 0, 0)>>

QuadInput(fn, pos, size, usage) ==
    [fn |-> fn, pos |-> pos, size |-> size, usage |-> usage]

(***************************************************************************)
(* void gl::transform_quad(Mesh& mesh, Vec2 pos, Vec2 size)                *)
(***************************************************************************)
transform_quad_call(pos, size) ==
    /\ UNCHANGED mesh
    /\ Enter("transform_quad", 203, QuadInput("transform_quad", pos, size, "none"))

transform_quad_203 ==
    /\ At("transform_quad", 203)
    /\ \E buffer \in Read(mesh.vbo_handle, Handles) :
       \E o \in Outcomes(glBindBuffer(gl, buffer)) :
         GLCHK(o, Expr("glBindBuffer", <<"GL_ARRAY_BUFFER", buffer>>, {}), 203)
    /\ Goto(204)
    /\ UNCHANGED <<shader, mesh, loc, inp, pre, done>>

\* Line 204 with the data store allocated anew instead of written in place.
transform_quad_204_realloc ==
    /\ At("transform_quad", 204)
    /\ LET size == SizeofImDrawVert * QuadVerts IN
       \E o \in Outcomes(glBufferData(gl, size, "GL_DYNAMIC_DRAW")) :
         GLCHK(o, Expr("glBufferData", <<"GL_ARRAY_BUFFER", size, "GL_DYNAMIC_DRAW">>, {}),
               204)
    /\ Leave("transform_quad")
    /\ loc' = IF Len(pc) = 1 THEN NoLocals ELSE loc
    /\ UNCHANGED <<shader, mesh, inp, pre>>

\* sizeof(verts) is that of the six vertices of the local array.
transform_quad_204 ==
    /\ At("transform_quad", 204)
    /\ LET verts == QuadVertices(inp.pos, inp.size)
           size == SizeofImDrawVert * Len(verts)
       IN \E o \in Outcomes(glBufferSubData(gl, 0, size, verts)) :
            GLCHK(o, Expr("glBufferSubData", <<"GL_ARRAY_BUFFER", 0, size, verts>>, {}),
                  204)
    /\ Leave("transform_quad")
    /\ loc' = IF Len(pc) = 1 THEN NoLocals ELSE loc
    /\ UNCHANGED <<shader, mesh, inp, pre>>

transform_quad == transform_quad_203 \/ transform_quad_204

(***************************************************************************)
(* void gl::init_quad(Mesh& mesh, Vec2 pos, Vec2 size, uint32 usage)       *)
(***************************************************************************)
init_quad_call(pos, size, usage) ==
    /\ UNCHANGED mesh
    /\ Enter("init_quad", 181, QuadInput("init_quad", pos, size, usage))

init_quad_181 ==
    /\ At("init_quad", 181)
    /\ \E o \in Outcomes(glGenBuffers(gl, mesh.vbo_handle)) :
         /\ GLCHK(o, Expr("glGenBuffers", <<1>>, {}), 181)
         /\ mesh' = [mesh EXCEPT !.vbo_handle = o.ret]
    /\ Goto(182)
    /\ UNCHANGED <<shader, loc, inp, pre, done>>

init_quad_182 ==
    /\ At("init_quad", 182)
    /\ \E buffer \in Read(mesh.vbo_handle, Handles) :
       \E o \in Outcomes(glBindBuffer(gl, buffer)) :
         GLCHK(o, Expr("glBindBuffer", <<"GL_ARRAY_BUFFER", buffer>>, {}), 182)
    /\ Goto(183)
    /\ UNCHANGED <<shader, mesh, loc, inp, pre, done>>

\* glBufferData, then the assignment of line 184.
init_quad_183 ==
    /\ At("init_quad", 183)
    /\ LET size == SizeofImDrawVert * 6 IN
       \E o \in Outcomes(glBufferData(gl, size, inp.usage)) :
         GLCHK(o, Expr("glBufferData", <<"GL_ARRAY_BUFFER", size, inp.usage>>, {}), 183)
    /\ mesh' = [mesh EXCEPT !.index_count = 6]
    /\ Goto(185)
    /\ UNCHANGED <<shader, loc, inp, pre, done>>

init_quad_185 ==
    /\ At("init_quad", 185)
    /\ Call("transform_quad", 203, 186)
    /\ UNCHANGED <<gl, err, shader, mesh, loc, inp, log, trace, pre, done, budget>>

init_quad_return ==
    /\ At("init_quad", 186)
    /\ Leave("init_quad")
    /\ loc' = NoLocals
    /\ UNCHANGED <<gl, err, shader, mesh, inp, log, trace, pre, budget>>

init_quad ==
    \/ init_quad_181 \/ init_quad_182 \/ init_quad_183 \/ init_quad_185
    \/ init_quad_return

(***************************************************************************)
(* uint32 gl::allocate_tex(int32 width, int32 height, uint8* data)         *)
(* loc.tex is the local tex, and the value returned.                       *)
(***************************************************************************)
allocate_tex_call(width, height) ==
    /\ UNCHANGED mesh
    /\ Enter("allocate_tex", 273,
             [fn |-> "allocate_tex", width |-> width, height |-> height])

TexStmt(line, r, expr, next) ==
    /\ At("allocate_tex", line)
    /\ \E o \in Outcomes(r) : GLCHK(o, expr, line)
    /\ Goto(next)
    /\ UNCHANGED <<shader, mesh, loc, inp, pre, done>>

allocate_tex_273 ==
    /\ At("allocate_tex", 273)
    /\ \E o \in Outcomes(glGenTextures(gl, loc.tex)) :
         /\ GLCHK(o, Expr("glGenTextures", <<1>>, {}), 273)
         /\ loc' = [loc EXCEPT !.tex = o.ret]
    /\ Goto(274)
    /\ UNCHANGED <<shader, mesh, inp, pre, done>>

allocate_tex_274 ==
    /\ At("allocate_tex", 274)
    /\ \E tex \in Read(loc.tex, Handles) :
         TexStmt(274, glBindTexture(gl, tex),
                 Expr("glBindTexture", <<"GL_TEXTURE_2D", tex>>, {}), 275)

allocate_tex_275 ==
    TexStmt(275, glTexParameteri(gl, "GL_TEXTURE_MIN_FILTER", "GL_LINEAR"),
            Expr("glTexParameteri", <<"GL_TEXTURE_2D", "GL_TEXTURE_MIN_FILTER",
                                      "GL_LINEAR">>, {}), 276)

allocate_tex_276 ==
    TexStmt(276, glTexParameteri(gl, "GL_TEXTURE_MAG_FILTER", "GL_LINEAR"),
            Expr("glTexParameteri", <<"GL_TEXTURE_2D", "GL_TEXTURE_MAG_FILTER",
                                      "GL_LINEAR">>, {}), 277)

\* Lines 277-278 followed by a bind of the texture bound at entry.
allocate_tex_277_restore ==
    /\ At("allocate_tex", 277)
    /\ \E o \in Outcomes(glTexImage2D(gl, "GL_RGBA8", inp.width, inp.height)) :
         GLCHK([o EXCEPT !.gl = glBindTexture(o.gl, pre.gl.texture).gl],
               Expr("glTexImage2D", <<"GL_TEXTURE_2D", 0, "GL_RGBA8", inp.width,
                                      inp.height, 0, "GL_RGBA", "GL_UNSIGNED_BYTE">>,
                    {}), 277)
    /\ Goto(279)
    /\ UNCHANGED <<shader, mesh, loc, inp, pre, done>>

allocate_tex_277 ==
    TexStmt(277, glTexImage2D(gl, "GL_RGBA8", inp.width, inp.height),
            Expr("glTexImage2D", <<"GL_TEXTURE_2D", 0, "GL_RGBA8", inp.width,
                                   inp.height, 0, "GL_RGBA", "GL_UNSIGNED_BYTE">>, {}),
            279)

\* return tex;
allocate_tex_279 ==
    /\ At("allocate_tex", 279)
    /\ \E tex \in Read(loc.tex, Handles) : loc' = [loc EXCEPT !.tex = tex]
    /\ Leave("allocate_tex")
    /\ UNCHANGED <<gl, err, shader, mesh, inp, log, trace, pre, budget>>

allocate_tex ==
    \/ allocate_tex_273 \/ allocate_tex_274 \/ allocate_tex_275
    \/ allocate_tex_276 \/ allocate_tex_277 \/ allocate_tex_279

(***************************************************************************)
(* The shader sources, the calls and the states of the application the     *)
(* specifications draw from.                                               *)
(***************************************************************************)
Decl(name, type) == [name |-> name, type |-> type, location |-> -1]

VertFull ==
    [ok |-> TRUE,
     attribs |-> <<Decl("position", "attribute"), Decl("uv", "attribute"),
                   Decl("color", "attribute")>>,
     uniforms |-> <<Decl("u_proj", "UniformType_Matrix4"),
                    Decl("u_alpha", "UniformType_Float")>>]

VertNoColor ==
    [ok |-> TRUE,
     attribs |-> <<Decl("position", "attribute"), Decl("uv", "attribute")>>,
     uniforms |-> <<Decl("u_proj", "UniformType_Matrix4")>>]

VertBad == [ok |-> FALSE, attribs |-> <<>>, uniforms |-> <<>>]

FragGood == [ok |-> TRUE, attribs |-> <<>>, uniforms |-> <<>>]

FragBad == [ok |-> FALSE, attribs |-> <<>>, uniforms |-> <<>>]

CompileCall(vert, frag, attribs, uniforms) ==
    [vert |-> vert, frag |-> frag, attribs |-> attribs, uniforms |-> uniforms]

\* The compile_shader calls of the application: attribute counts 0..3 and
\* uniform counts 0..2, names the sources declare and names they do not, and
\* sources whose vertex or fragment stage fails to compile.
CompileCalls ==
    {CompileCall(VertFull, FragGood, <<"position", "uv", "color">>,
                 <<"u_proj", "u_alpha">>),
     CompileCall(VertNoColor, FragGood, <<"position", "uv", "color">>, <<"u_proj">>),
     CompileCall(VertNoColor, FragGood, <<"position", "uv">>, <<"u_alpha", "u_proj">>),
     CompileCall(VertFull, FragGood, <<"uv">>, <<"u_proj">>),
     CompileCall(VertBad, FragGood, <<"position">>, <<>>),
     CompileCall(VertFull, FragBad, <<>>, <<"u_proj">>)}

Arg(type) == [type |-> type, value |-> 1]

\* The draw_mesh calls of the application: scissor flag and uniform argument
\* list, of the length the shader was compiled with or another.
DrawCall(scissor, is_line_loop, args) ==
    [scissor |-> scissor, is_line_loop |-> is_line_loop, args |-> args]

DrawCalls ==
    {DrawCall(TRUE, FALSE, <<>>),
     DrawCall(FALSE, TRUE, <<Arg("UniformType_Matrix4")>>),
     DrawCall(TRUE, TRUE, <<Arg("UniformType_Matrix4"), Arg("UniformType_Float")>>),
     DrawCall(FALSE, FALSE, <<Arg("UniformType_Vec2"), Arg("UniformType_Color")>>)}

\* The program object and the Shader that compile_shader leaves when no GPU
\* call fails, for the first and the third call of CompileCalls.
LinkedProgram(vert) ==
    [created |-> TRUE, linked |-> TRUE,
     attribs |-> Located(vert.attribs), uniforms |-> Located(vert.uniforms)]

Slots(locations) ==
    [k \in 0..(SlotCount - 1) |->
        IF k < Len(locations) THEN locations[k + 1] ELSE Indeterminate]

CompiledShader(attribs, uniforms) ==
    [handle |-> 1, attrib_count |-> Len(attribs), uniform_count |-> Len(uniforms),
     attribs |-> Slots(attribs), uniforms |-> Slots(uniforms)]

ShaderFull == CompiledShader(<<0, 1, 2>>, <<0, 1>>)

ShaderNoColor == CompiledShader(<<0, 1>>, <<-1, 0>>)

\* The two shader objects compile_shader created, compiled and attached.
CompiledObjects(vert) ==
    [h \in 1..MaxHandle |->
        IF h = 1 THEN [kind |-> "GL_VERTEX_SHADER", source |-> vert,
                       compiled |-> TRUE, attached |-> 1]
        ELSE IF h = 2 THEN [kind |-> "GL_FRAGMENT_SHADER", source |-> FragGood,
                            compiled |-> TRUE, attached |-> 1]
        ELSE NoShaderObj]

\* A Shader and a Mesh before compile_shader and init_quad wrote them.
NoShader ==
    [handle |-> Indeterminate, attrib_count |-> Indeterminate,
     uniform_count |-> Indeterminate,
     attribs |-> [k \in 0..(SlotCount - 1) |-> Indeterminate],
     uniforms |-> [k \in 0..(SlotCount - 1) |-> Indeterminate]]

NoMesh ==
    [is_line_loop |-> FALSE, vbo_size |-> Indeterminate,
     index_count |-> Indeterminate, vbo_handle |-> Indeterminate,
     elements_handle |-> Indeterminate]

\* The Mesh and the buffer object init_quad(mesh, (0,0), (1,1), usage) leaves.
QuadMesh(is_line_loop) ==
    [is_line_loop |-> is_line_loop, vbo_size |-> Indeterminate,
     index_count |-> QuadVerts, vbo_handle |-> 1,
     elements_handle |-> Indeterminate]

QuadBuffer == [size |-> SizeofImDrawVert * QuadVerts,
               verts |-> QuadVertices(<<0, 0>>, <<1, 1>>)]

\* The context once the application has compiled the layer's shader from
\* vert (program 1), linked a program of its own (program 2), created the
\* quad (buffer 1) and a texture (texture 1).
ReadyGL(vert) ==
    [DefaultGL EXCEPT !.programs = [h \in 1..MaxHandle |->
                                       IF h = 1 THEN LinkedProgram(vert)
                                       ELSE IF h = 2 THEN LinkedProgram(VertNoColor)
                                       ELSE NoProgram],
                      !.shaders = CompiledObjects(vert),
                      !.buffers[1] = QuadBuffer,
                      !.bufferNames = {1},
                      !.textureNames = {1}]

\* The global state other rendering code of the application can leave.
AppStates(vert) ==
    {[ReadyGL(vert) EXCEPT !.program = p, !.texture = t, !.blend = b[1],
                           !.scissor = b[2], !.cull = b[3], !.depth = b[4],
                           !.blendEq = q[1], !.blendFunc = q[2],
                           !.arrayBuffer = q[3][1], !.lineWidth = q[3][2],
                           !.attribEnabled = q[3][3]] :
        p \in 0..2, t \in 0..1, b \in [1..4 -> BOOLEAN],
        q \in {"GL_FUNC_ADD", "GL_FUNC_SUBTRACT"}
              \X {<<"GL_ONE", "GL_ZERO">>, <<"GL_SRC_ALPHA", "GL_ONE_MINUS_SRC_ALPHA">>}
              \X {<<0, 1, {}>>, <<1, 2, {2}>>}}

\* The error flags GL calls of the application left pending (raised by no
\* line of this layer).
Pending(codes) == {[code |-> c, by |-> 0] : c \in codes}

AppErrors ==
    {Pending({}),
     Pending({"GL_TABLE_TOO_LARGE", "GL_INVALID_ENUM"}),
     Pending({"GL_INVALID_VALUE", "GL_INVALID_OPERATION",
              "GL_INVALID_FRAMEBUFFER_OPERATION"}),
     Pending({"GL_OUT_OF_MEMORY", "GL_STACK_UNDERFLOW", "GL_STACK_OVERFLOW"})}

InitApp ==
    /\ pc = <<>>
    /\ loc = NoLocals
    /\ inp = NoInput
    /\ log = <<>>
    /\ trace = <<>>
    /\ done = "none"

(***************************************************************************)
(* SpecDraw: any number of draws of a compiled shader and the quad, from   *)
(* every global state the application can leave.  No GPU call fails other  *)
(* than by the driver's rules; Spec has the draws in which calls fail.     *)
(***************************************************************************)
InitDraw ==
    /\ InitApp
    /\ err = {}
    /\ \E f \in {<<ShaderNoColor, VertNoColor>>, <<ShaderFull, VertFull>>} :
         shader = f[1] /\ gl \in AppStates(f[2])
    /\ mesh = QuadMesh(FALSE)
    /\ budget = 0
    /\ pre = [gl |-> gl, shader |-> shader, mesh |-> mesh]

NextDraw ==
    \/ \E c \in DrawCalls : draw_mesh_call(c.scissor, c.is_line_loop, c.args)
    \/ draw_mesh

SpecDraw == InitDraw /\ [][NextDraw]_vars

(***************************************************************************)
(* Spec: the application compiles the layer's shader, against shader       *)
(* sources that declare all, or only some, of the names it asks for, or    *)
(* that fail to compile, and then draws the quad with it; up to MaxFails   *)
(* of the GPU calls fail.  SpecDraw has the draws that follow a draw.      *)
(***************************************************************************)
Init ==
    /\ InitApp
    /\ err = {}
    /\ shader = NoShader
    /\ mesh = QuadMesh(FALSE)
    /\ gl = [DefaultGL EXCEPT !.buffers[1] = QuadBuffer, !.bufferNames = {1}]
    /\ budget = MaxFails
    /\ pre = [gl |-> gl, shader |-> shader, mesh |-> mesh]

Next ==
    \/ /\ shader.handle = Indeterminate
       /\ \E c \in CompileCalls :
            compile_shader_call(c.vert, c.frag, c.attribs, c.uniforms)
    \/ compile_shader
    \/ /\ done = "compile_shader"
       /\ \E c \in DrawCalls : draw_mesh_call(c.scissor, c.is_line_loop, c.args)
    \/ draw_mesh

Spec == Init /\ [][Next]_vars

(***************************************************************************)
(* SpecQuad: the application creates the quad with init_quad, then moves   *)
(* it with transform_quad and draws it, in any order and any number of     *)
(* times.  No wrapped call fails by injection.                             *)
(***************************************************************************)
Origins == {<<0, 0>>, <<0 - 1, 2>>}

Rects == {[pos |-> o, size |-> <<w, h>>] :
             o \in Origins,
             w \in (0 - MaxSize)..MaxSize, h \in (0 - MaxSize)..MaxSize}

Usages == {"GL_STATIC_DRAW", "GL_DYNAMIC_DRAW"}

InitQuad ==
    /\ InitApp
    /\ err = {}
    /\ mesh = NoMesh
    /\ \E f \in {<<ShaderNoColor, VertNoColor, {}>>, <<ShaderFull, VertFull, {1}>>} :
         /\ shader = f[1]
         /\ gl = [ReadyGL(f[2]) EXCEPT !.buffers[1] = NoBuffer, !.bufferNames = f[3]]
    /\ budget = 0
    /\ pre = [gl |-> gl, shader |-> shader, mesh |-> mesh]

NextQuad ==
    \/ /\ mesh.vbo_handle = Indeterminate
       /\ \E r \in Rects, usage \in Usages : init_quad_call(r.pos, r.size, usage)
    \/ init_quad
    \/ /\ mesh.index_count # Indeterminate
       /\ \E r \in Rects : transform_quad_call(r.pos, r.size)
    \/ transform_quad
    \/ /\ mesh.index_count # Indeterminate
       /\ \E c \in DrawCalls : draw_mesh_call(c.scissor, c.is_line_loop, c.args)
    \/ draw_mesh

SpecQuad == InitQuad /\ [][NextQuad]_vars

(***************************************************************************)
(* SpecErr: the application creates and moves the quad while error flags   *)
(* of its own GL calls are pending, and wrapped calls fail by injection.   *)
(***************************************************************************)
InitErr ==
    /\ InitApp
    /\ err \in AppErrors
    /\ shader = ShaderFull
    /\ mesh = NoMesh
    /\ gl = [ReadyGL(VertFull) EXCEPT !.buffers[1] = NoBuffer, !.bufferNames = {}]
    /\ budget = MaxFails
    /\ pre = [gl |-> gl, shader |-> shader, mesh |-> mesh]

Squares == {r \in Rects : r.pos = <<0, 0>> /\ r.size[1] = r.size[2]}

NextErr ==
    \/ /\ mesh.index_count = Indeterminate
       /\ \E r \in Squares : init_quad_call(r.pos, r.size, "GL_DYNAMIC_DRAW")
    \/ init_quad
    \/ /\ mesh.index_count # Indeterminate
       /\ \E r \in Squares : transform_quad_call(r.pos, r.size)
    \/ transform_quad

SpecErr == InitErr /\ [][NextErr]_vars

(***************************************************************************)
(* SpecTex: the application allocates textures while a name is unused,     *)
(* creates and moves the quad, and draws; no GPU call fails.               *)
(***************************************************************************)
TexSizes == {<<0, 0>>, <<1, 2>>}

InitTex ==
    /\ InitApp
    /\ err = {}
    /\ mesh = NoMesh
    /\ \E f \in {<<ShaderNoColor, VertNoColor>>, <<ShaderFull, VertFull>>}, t \in 0..1 :
         /\ shader = f[1]
         /\ gl = [ReadyGL(f[2]) EXCEPT !.buffers[1] = NoBuffer, !.bufferNames = {},
                                       !.texture = t]
    /\ budget = 0
    /\ pre = [gl |-> gl, shader |-> shader, mesh |-> mesh]

NextTex ==
    \/ /\ \E h \in 1..MaxHandle : h \notin gl.textureNames
       /\ \E d \in TexSizes : allocate_tex_call(d[1], d[2])
    \/ allocate_tex
    \/ /\ mesh.index_count = Indeterminate
       /\ \E r \in Squares : init_quad_call(r.pos, r.size, "GL_DYNAMIC_DRAW")
    \/ init_quad
    \/ /\ mesh.index_count # Indeterminate
       /\ \E r \in Squares : transform_quad_call(r.pos, r.size)
    \/ transform_quad
    \/ /\ mesh.index_count # Indeterminate
       /\ \E c \in DrawCalls : draw_mesh_call(c.scissor, c.is_line_loop, c.args)
    \/ draw_mesh

SpecTex == InitTex /\ [][NextTex]_vars

(***************************************************************************)
(* SpecBind: the application draws with a compiled shader while a program   *)
(* of its own, or none, is current, and up to MaxFails of the wrapped calls *)
(* of the draws fail.                                                       *)
(***************************************************************************)
InitBind ==
    /\ InitApp
    /\ err = {}
    /\ \E f \in {<<ShaderNoColor, VertNoColor>>, <<ShaderFull, VertFull>>} :
         /\ shader = f[1]
         /\ \E p \in 0..2, t \in 0..1 :
              gl = [ReadyGL(f[2]) EXCEPT !.program = p, !.texture = t]
    /\ mesh = QuadMesh(FALSE)
    /\ budget = MaxFails
    /\ pre = [gl |-> gl, shader |-> shader, mesh |-> mesh]

NextBind ==
    \/ \E c \in DrawCalls : draw_mesh_call(c.scissor, c.is_line_loop, c.args)
    \/ draw_mesh

SpecBind == InitBind /\ [][NextBind]_vars

(***************************************************************************)
(* SpecInit: the application probes its context with init, any number of   *)
(* times, on contexts that offer any part of what init asks for.           *)
(***************************************************************************)
Caps == {[glew |-> g, supported |-> x] :
            g \in BOOLEAN, x \in SUBSET {"GL_VERSION_2_1", "GL_ARB_framebuffer_object"}}

InitInit ==
    /\ InitApp
    /\ err = {}
    /\ shader = ShaderFull
    /\ mesh = QuadMesh(FALSE)
    /\ \E g \in AppStates(VertFull), c \in Caps :
         /\ g.blendEq = "GL_FUNC_ADD" /\ g.lineWidth = 1
         /\ gl = [g EXCEPT !.caps = c]
    /\ budget = 0
    /\ pre = [gl |-> gl, shader |-> shader, mesh |-> mesh]

NextInit == init_call \/ init

SpecInit == InitInit /\ [][NextInit]_vars

(***************************************************************************)
(* Properties.                                                             *)
(***************************************************************************)
Returned(fn) == Idle /\ done = fn

In(fn) == pc # <<>> /\ pc[1].fn = fn

\* The positions in trace of the calls of one GL function, of the calls
\* issued from a set of source lines, and of the calls that raised an error.
Calls(fn) == {k \in DOMAIN trace : trace[k].fn = fn}

IssuedAt(lines) == {k \in DOMAIN trace : trace[k].line \in lines}

Failed == {k \in DOMAIN trace : trace[k].e # "GL_NO_ERROR"}

RestoreLines == 263..267

\* C1: when draw_mesh has returned, the current program and the texture
\* bound to the 2D target are the ones of the moment the call was entered,
\* whichever of the wrapped GPU calls of that draw failed.
C1_BindingsRestored ==
    Returned("draw_mesh") =>
        /\ gl.program = pre.gl.program
        /\ gl.texture = pre.gl.texture

\* C2: when draw_mesh has returned, blending, blend equation and function,
\* scissor test, face culling, depth test, array-buffer binding, line width
\* and the set of enabled vertex attribute arrays are as they were when the
\* call was entered.
C2_NoPermanentSideEffect ==
    Returned("draw_mesh") =>
        /\ gl.blend = pre.gl.blend
        /\ gl.blendEq = pre.gl.blendEq
        /\ gl.blendFunc = pre.gl.blendFunc
        /\ gl.scissor = pre.gl.scissor
        /\ gl.cull = pre.gl.cull
        /\ gl.depth = pre.gl.depth
        /\ gl.arrayBuffer = pre.gl.arrayBuffer
        /\ gl.lineWidth = pre.gl.lineWidth
        /\ gl.attribEnabled = pre.gl.attribEnabled

\* The calls draw_mesh issues ahead of the draw call: the two snapshot
\* queries, the state setup of lines 213-222, one upload per uniform
\* argument, one enable per attribute slot below attrib_count, the two or
\* three attribute layouts and the line width.
SetupIssued(before) ==
    LET at(lines) == {k \in IssuedAt(lines) : k < before} IN
    /\ \A l \in (211..217) \cup {221, 222, 163, 167, 258} : Cardinality(at({l})) = 1
    /\ Cardinality(at({218, 219})) = 1
    /\ Cardinality(at({228})) = inp.uniform_count
    /\ Cardinality(at({158})) = shader.attrib_count
    /\ Cardinality(at({172})) = IF shader.attrib_count > 2 THEN 1 ELSE 0

\* C3: a draw_mesh call issues exactly one glDrawArrays, with first vertex 0,
\* vertex count mesh.index_count and topology GL_LINE_LOOP when
\* mesh.is_line_loop is set and GL_TRIANGLES otherwise; every setup call of
\* the draw precedes it and only the restoration calls follow it.
C3_OneDrawCall ==
    (In("draw_mesh") \/ Returned("draw_mesh")) =>
        LET draws == Calls("glDrawArrays") IN
        /\ Cardinality(draws) <= 1
        /\ (Returned("draw_mesh") \/ IssuedAt(RestoreLines) # {}) =>
               Cardinality(draws) = 1
        /\ \A d \in draws :
             /\ trace[d].line = 259
             /\ trace[d].args =
                    <<IF mesh.is_line_loop THEN "GL_LINE_LOOP" ELSE "GL_TRIANGLES",
                      0, mesh.index_count>>
             /\ SetupIssued(d)
             /\ \A k \in 1..(d - 1) : trace[k].line \notin RestoreLines
             /\ \A k \in (d + 1)..Len(trace) : trace[k].line \in RestoreLines

\* A line-loop draw with two uniform uploads has returned, one of its
\* wrapped calls having failed.
C3_Witness ==
    /\ Returned("draw_mesh")
    /\ mesh.is_line_loop
    /\ inp.uniform_count = 2
    /\ Failed # {}
    /\ Calls("glDrawArrays") # {}

\* C4: a draw_mesh call whose uniform count differs from the count the
\* shader was compiled with is reported as a precondition violation, and
\* the draw does not go through with one upload per argument of the caller.
C4_MismatchReported ==
    /\ Returned("draw_mesh")
    /\ inp.uniform_count # shader.uniform_count
    => /\ \E k \in DOMAIN log : log[k].kind = "Precondition violation"
       /\ Cardinality(IssuedAt({228})) # inp.uniform_count

\* The enable and layout calls of set_vertex_attribs.
AttribCalls == Calls("glEnableVertexAttribArray") \cup Calls("glVertexAttribPointer")

\* C5: when the third attribute name is not found, compile_shader stores the
\* sentinel -1 in its slot and completes; a draw with that shader issues no
\* attribute-array enable and no attribute-layout call with the sentinel as
\* index, and these calls report no GPU error.
C5_SentinelSkipped ==
    /\ Returned("draw_mesh")
    /\ shader.attrib_count = 3
    /\ shader.attribs[0] >= 0 /\ shader.attribs[1] >= 0
    /\ shader.attribs[2] = -1
    => /\ \A k \in AttribCalls : trace[k].args[1] # -1
       /\ \A k \in DOMAIN log : log[k].expr.fn \notin
              {"glEnableVertexAttribArray", "glVertexAttribPointer"}

\* The calls of one GL function in trace, in the order they were issued.
RECURSIVE InOrder(_, _)
InOrder(fn, n) ==
    IF n = 0 THEN <<>>
    ELSE IF trace[n].fn = fn THEN Append(InOrder(fn, n - 1), trace[n])
         ELSE InOrder(fn, n - 1)

\* C6: when compile_shader(..., N, M, names) has returned, attrib_count is N
\* and uniform_count is M, slot i below the count holds what the driver
\* returned for the i-th attribute (uniform) name, in argument order, and the
\* slots from the count on are not written; draw_mesh and
\* set_vertex_attribs leave the whole shader record as they found it.
C6_SlotsResolved ==
    /\ Returned("compile_shader") =>
         LET A == InOrder("glGetAttribLocation", Len(trace))
             U == InOrder("glGetUniformLocation", Len(trace))
             N == inp.attrib_count
             M == inp.uniform_count
         IN /\ shader.attrib_count = N /\ shader.uniform_count = M
            /\ Len(A) = N /\ Len(U) = M
            /\ \A i \in 0..(N - 1) :
                 /\ A[i + 1].args = <<shader.handle, inp.names[i + 1]>>
                 /\ shader.attribs[i] = A[i + 1].ret
                 /\ shader.attribs[i] \in Locations
            /\ \A i \in 0..(M - 1) :
                 /\ U[i + 1].args = <<shader.handle, inp.names[N + i + 1]>>
                 /\ shader.uniforms[i] = U[i + 1].ret
                 /\ shader.uniforms[i] \in Locations
            /\ \A i \in N..(SlotCount - 1) : shader.attribs[i] = Indeterminate
            /\ \A i \in M..(SlotCount - 1) : shader.uniforms[i] = Indeterminate
    /\ (In("draw_mesh") \/ Returned("draw_mesh")) => shader = pre.shader

\* A shader compiled with three attribute names of which the driver found
\* two, and one uniform, has been used by a draw that has returned.
C6_Witness ==
    /\ Returned("draw_mesh")
    /\ shader.attrib_count = 3 /\ shader.uniform_count = 1
    /\ shader.attribs[0] = 0 /\ shader.attribs[1] = 1 /\ shader.attribs[2] = -1
    /\ shader.uniforms[0] = 0

\* C9: when draw_mesh has returned, the last five calls it issued are, in
\* this order, glBindBuffer(GL_ARRAY_BUFFER, 0), glUseProgram of the
\* program snapshot, glDisable(GL_SCISSOR_TEST), glDisable(GL_BLEND) and
\* glBindTexture(GL_TEXTURE_2D) of the texture snapshot, and no other call
\* comes from the restoration lines, whichever earlier calls failed; while
\* the draw is in progress its next statement can always be taken.
C9_RestorationIssued ==
    /\ Returned("draw_mesh") =>
         LET n == Len(trace)
             snap(l, old) == IF trace[l].e = "GL_NO_ERROR" THEN {old} ELSE Handles
         IN /\ n >= 7
            /\ trace[1].line = 211 /\ trace[2].line = 212
            /\ IssuedAt(RestoreLines) = (n - 4)..n
            /\ \A k \in 0..4 : trace[n - 4 + k].line = 263 + k
            /\ trace[n - 4].fn = "glBindBuffer"
            /\ trace[n - 4].args = <<"GL_ARRAY_BUFFER", 0>>
            /\ trace[n - 3].fn = "glUseProgram"
            /\ \E p \in snap(1, pre.gl.program) : trace[n - 3].args = <<p>>
            /\ trace[n - 2].fn = "glDisable"
            /\ trace[n - 2].args = <<"GL_SCISSOR_TEST">>
            /\ trace[n - 1].fn = "glDisable"
            /\ trace[n - 1].args = <<"GL_BLEND">>
            /\ trace[n].fn = "glBindTexture"
            /\ \E t \in snap(2, pre.gl.texture) : trace[n].args = <<"GL_TEXTURE_2D", t>>
    /\ In("draw_mesh") => ENABLED draw_mesh

\* A draw has returned in which a call ahead of the restoration sequence
\* raised an error.
C9_Witness ==
    /\ Returned("draw_mesh")
    /\ \E k \in Failed : trace[k].line \notin RestoreLines
    /\ Len(trace) >= 12

Min(a, b) == IF a <= b THEN a ELSE b

Max(a, b) == IF a >= b THEN a ELSE b

\* Twice the signed area of the triangle a, b, c: its sign is the winding.
Cross(a, b, c) ==
    (b[1] - a[1]) * (c[2] - a[2]) - (b[2] - a[2]) * (c[1] - a[1])

Sign(n) == IF n > 0 THEN 1 ELSE IF n < 0 THEN 0 - 1 ELSE 0

\* Point p lies in the closed triangle a, b, c.
InTriangle(p, a, b, c) ==
    LET s == {Sign(Cross(a, b, p)), Sign(Cross(b, c, p)), Sign(Cross(c, a, p))}
    IN ~({1, 0 - 1} \subseteq s)

Twice(p) == <<2 * p[1], 2 * p[2]>>

\* C7: the data transform_quad(mesh, (x, y), (w, h)) hands to the buffer
\* write are exactly 6 vertices whose positions span the rectangle from
\* (x, y) to (x + w, y + h); each vertex lies on a corner and carries the UV
\* of that corner, all four corners occur, every colour is 0xffffffff, the
\* two triangles (vertices 1-3 and 4-6) have the same winding and every
\* point of the rectangle lies in one of them; a write that succeeds leaves
\* these vertices as the contents of the mesh's buffer.
C7_QuadGeometry ==
    \A k \in Calls("glBufferSubData") :
        LET V == trace[k].args[4]
            x == inp.pos[1]
            y == inp.pos[2]
            w == inp.size[1]
            h == inp.size[2]
            corners == {[pos |-> <<x, y>>, uv |-> <<0, 0>>],
                        [pos |-> <<x, y + h>>, uv |-> <<0, 1>>],
                        [pos |-> <<x + w, y>>, uv |-> <<1, 0>>],
                        [pos |-> <<x + w, y + h>>, uv |-> <<1, 1>>]}
            xs == {V[i].pos[1] : i \in DOMAIN V}
            ys == {V[i].pos[2] : i \in DOMAIN V}
        IN /\ Len(V) = 6
           /\ \A i \in DOMAIN V :
                /\ [pos |-> V[i].pos, uv |-> V[i].uv] \in corners
                /\ V[i].col = "0xffffffff"
           /\ \A c \in corners : \E i \in DOMAIN V : V[i].pos = c.pos /\ V[i].uv = c.uv
           /\ \A a \in xs : Min(x, x + w) <= a /\ a <= Max(x, x + w)
           /\ \A b \in ys : Min(y, y + h) <= b /\ b <= Max(y, y + h)
           /\ {Min(x, x + w), Max(x, x + w)} \subseteq xs
           /\ {Min(y, y + h), Max(y, y + h)} \subseteq ys
           /\ Sign(Cross(V[1].pos, V[2].pos, V[3].pos)) =
              Sign(Cross(V[4].pos, V[5].pos, V[6].pos))
           /\ \A px \in (2 * Min(x, x + w))..(2 * Max(x, x + w)) :
              \A py \in (2 * Min(y, y + h))..(2 * Max(y, y + h)) :
                \/ InTriangle(<<px, py>>, Twice(V[1].pos), Twice(V[2].pos), Twice(V[3].pos))
                \/ InTriangle(<<px, py>>, Twice(V[4].pos), Twice(V[5].pos), Twice(V[6].pos))
           /\ (trace[k].e = "GL_NO_ERROR" /\ k = Len(trace)) =>
                  gl.buffers[mesh.vbo_handle].verts = V

\* transform_quad has returned from moving the quad to a rectangle of
\* negative width and positive height, and the buffer holds its corners.
C7_Witness ==
    /\ Returned("transform_quad")
    /\ inp.size[1] < 0 /\ inp.size[2] > 0
    /\ Calls("glBufferSubData") # {}
    /\ gl.buffers[mesh.vbo_handle].verts[1].pos =
           <<inp.pos[1], inp.pos[2] + inp.size[2]>>
    /\ gl.buffers[mesh.vbo_handle].verts[4].uv = <<1, 0>>

\* Once init_quad has returned the mesh has 6 vertices and its buffer the
\* capacity of 6 vertices.
C8_Capacity ==
    (mesh.index_count # Indeterminate /\ ~In("init_quad")) =>
        /\ mesh.index_count = 6
        /\ mesh.vbo_handle \in 1..MaxHandle
        /\ gl.buffers[mesh.vbo_handle].size = 6 * SizeofImDrawVert

\* A step of transform_quad or draw_mesh outside init_quad keeps the handle,
\* the vertex count and the size of every buffer; the call it issues
\* neither creates a buffer nor allocates a data store, and a buffer write
\* goes to the mesh's buffer at offset 0 with the length of its capacity.
C8_Step ==
    (~In("init_quad") /\ ~(pc' # <<>> /\ pc'[1].fn = "init_quad")) =>
        /\ mesh'.vbo_handle = mesh.vbo_handle
        /\ mesh'.index_count = mesh.index_count
        /\ \A b \in 1..MaxHandle :
             /\ gl'.buffers[b].size = gl.buffers[b].size
             /\ Len(gl'.buffers[b].verts) = Len(gl.buffers[b].verts)
        /\ Len(trace') = Len(trace) + 1 =>
             LET c == trace'[Len(trace')] IN
             /\ c.fn \notin {"glGenBuffers", "glBufferData"}
             /\ c.fn = "glBufferSubData" =>
                  /\ gl.arrayBuffer = mesh.vbo_handle
                  /\ c.args[2] = 0
                  /\ c.args[3] = gl.buffers[mesh.vbo_handle].size

\* C8: after init_quad, transform_quad and draw_mesh calls in any sequence
\* leave mesh.vbo_handle and mesh.index_count (6) as they are and never
\* allocate or resize the buffer: its capacity stays that of 6 vertices, and
\* every transform_quad writes from offset 0 exactly that many bytes.
C8_InPlaceUpdate == [](C8_Capacity) /\ [][C8_Step]_vars

\* The quad, created as buffer 2, has been drawn and then moved: the
\* buffer's contents changed in place.
C8_Witness ==
    /\ Returned("transform_quad")
    /\ mesh.vbo_handle = 2
    /\ pre.gl.attribEnabled # {}
    /\ pre.gl.buffers[2].verts # gl.buffers[2].verts
    /\ pre.gl.buffers[2].size = gl.buffers[2].size

\* The category check_error reports for an error code.
Category(code) ==
    CASE code = "GL_INVALID_ENUM" -> "Invalid enum"
      [] code = "GL_INVALID_VALUE" -> "Invalid value"
      [] code = "GL_INVALID_OPERATION" -> "Invalid operation"
      [] code = "GL_INVALID_FRAMEBUFFER_OPERATION" -> "Invalid framebuffer operation"
      [] code = "GL_OUT_OF_MEMORY" -> "Out of memory"
      [] code = "GL_STACK_UNDERFLOW" -> "Stack underflow"
      [] code = "GL_STACK_OVERFLOW" -> "Stack overflow"
      [] code \notin ErrorCodes \/ code = "GL_TABLE_TOO_LARGE" -> "Undefined error"

\* A step that issues a wrapped call c: the flags pending when check_error
\* runs are those pending before plus the one c raised.
C10_Step ==
    Len(trace') = Len(trace) + 1 =>
        LET c == trace'[Len(trace')]
            pending == IF c.e = "GL_NO_ERROR" \/ (\E x \in err : x.code = c.e)
                       THEN err ELSE err \cup {[code |-> c.e, by |-> c.line]}
            added == SubSeq(log', Len(log) + 1, Len(log'))
            reports == SelectSeq(added, LAMBDA r : r.kind = "OpenGL Error")
        IN /\ SubSeq(log', 1, Len(log)) = log
           /\ IF pending = {}
              THEN err' = {} /\ reports = <<>>
              ELSE \E x \in pending :
                     /\ err' = pending \ {x}
                     /\ Len(reports) = 1
                     /\ reports[1].str = Category(x.code)
                     /\ reports[1].expr.fn = c.fn /\ reports[1].expr.args = c.args
                     /\ reports[1].file = "gl.h" /\ reports[1].line = c.line
           /\ pc' # pc \/ loc' # loc

\* C10: a check_error invocation takes exactly one pending error code from
\* the driver; with none pending it logs nothing, otherwise it logs exactly
\* one report with the category of the code it took (the undefined category
\* for a code it has no branch for) and the call text, file and line it was
\* given; the statement after it is then executed: an operation in progress
\* can always take its next step.
C10_OneCodePerCheck ==
    [](pc # <<>> => ENABLED NextErr) /\ [][C10_Step]_vars

\* The first check of an operation has reported a code check_error has no
\* branch for, and a second flag is still pending after it.
C10_Witness ==
    /\ \E k \in DOMAIN log : log[k].str = "Undefined error"
    /\ err # {}
    /\ Len(trace) = 1

\* The checks of init in the order it makes them, with what each reports.
InitChecks ==
    <<[fn |-> "glewInit", args |-> <<>>, ok |-> gl.caps.glew,
       str |-> "GLEW initialization failed."],
      [fn |-> "glewIsSupported", args |-> <<"GL_VERSION_2_1">>,
       ok |-> "GL_VERSION_2_1" \in gl.caps.supported,
       str |-> "This hardware doesn't support OpenGL 2.1."],
      [fn |-> "glewIsSupported", args |-> <<"GL_ARB_framebuffer_object">>,
       ok |-> "GL_ARB_framebuffer_object" \in gl.caps.supported,
       str |-> "This hardware doesn't support OpenGL extension GL_ARB_framebuffer_object."]>>

FirstFailing == {k \in 1..3 : ~InitChecks[k].ok /\ \A j \in 1..(k - 1) : InitChecks[j].ok}

\* C11: init checks function-pointer loading, then OpenGL 2.1, then the
\* framebuffer-object extension; it returns true exactly when all three
\* pass; at the first check that fails it reports that capability, returns
\* false and makes none of the later checks.
C11_InitChecksInOrder ==
    Returned("init") =>
        /\ \A k \in DOMAIN trace :
             k <= 3 /\ trace[k].fn = InitChecks[k].fn /\ trace[k].args = InitChecks[k].args
        /\ loc.ret <=> (\A k \in 1..3 : InitChecks[k].ok)
        /\ loc.ret => Len(trace) = 3 /\ log = <<>>
        /\ \A k \in FirstFailing :
             /\ Len(trace) = k
             /\ Len(log) = 1 /\ log[1].str = InitChecks[k].str
             /\ ~loc.ret

\* init has returned false on a context that loads GLEW but lacks OpenGL
\* 2.1 and the extension: it reported the version alone.
C11_Witness ==
    /\ Returned("init")
    /\ gl.caps.glew /\ gl.caps.supported = {}
    /\ Len(trace) = 2 /\ Len(log) = 1

\* C12: on a context that passes the three checks every call of init, the
\* first and any later one, returns true, prints nothing and leaves the
\* shader, the mesh, the context's bindings and enable flags and the pending
\* error flags as they were.
C12_InitIdempotent ==
    (Returned("init") /\ gl.caps = FullCaps) =>
        /\ loc.ret
        /\ log = <<>>
        /\ gl = pre.gl /\ shader = pre.shader /\ mesh = pre.mesh
        /\ err = {}

\* A call of init that follows another has returned true with blending
\* enabled and program 2 current.
C12_Witness ==
    /\ Returned("init")
    /\ inp.again
    /\ loc.ret
    /\ gl.blend /\ gl.program = 2

\* The calls of trace issued from a set of source lines, in issue order.
RECURSIVE IssuedInOrder(_, _)
IssuedInOrder(lines, n) ==
    IF n = 0 THEN <<>>
    ELSE IF trace[n].line \in lines THEN Append(IssuedInOrder(lines, n - 1), trace[n])
         ELSE IssuedInOrder(lines, n - 1)

\* The uniform uploads of the draw in progress or last returned.
Uploads == IssuedInOrder({228}, Len(trace))

\* C13: in draw_mesh the i-th upload reads slot i of the shader's uniform
\* table and passes what the slot holds as location, with the value of the
\* i-th argument, through the call of the i-th argument's tag (Float:
\* glUniform1f, Vec2: glUniform2f, Matrix4: glUniformMatrix4fv, Color:
\* glUniform4f); an upload to the sentinel -1 raises nothing and changes
\* nothing, and the uploads after it still pair argument j with slot j; when
\* the draw returns there was one upload per argument.
C13_UniformsByPosition ==
    (In("draw_mesh") \/ Returned("draw_mesh")) =>
        /\ Len(Uploads) <= inp.uniform_count
        /\ Returned("draw_mesh") => Len(Uploads) = inp.uniform_count
        /\ \A j \in DOMAIN Uploads :
             LET u == Uploads[j]
                 arg == inp.args[j]
             IN /\ u.reads = {<<"uniforms", j - 1>>}
                /\ shader.uniforms[j - 1] # Indeterminate =>
                       u.args[1] = shader.uniforms[j - 1]
                /\ u.args[2] = arg.value
                /\ u.fn = CASE arg.type = "UniformType_Float" -> "glUniform1f"
                            [] arg.type = "UniformType_Vec2" -> "glUniform2f"
                            [] arg.type = "UniformType_Matrix4" -> "glUniformMatrix4fv"
                            [] arg.type = "UniformType_Color" -> "glUniform4f"
                /\ (u.args[1] = -1 /\ budget = MaxFails) => u.e = "GL_NO_ERROR"

\* A draw with a Matrix4 and a Float argument has returned for a shader
\* whose first uniform slot holds the sentinel and whose second holds
\* location 0: the Float went to location 0.
C13_Witness ==
    /\ Returned("draw_mesh")
    /\ shader.uniform_count = 2
    /\ shader.uniforms[0] = -1 /\ shader.uniforms[1] = 0
    /\ Len(Uploads) = 2
    /\ Uploads[1].args[1] = -1 /\ Uploads[1].e = "GL_NO_ERROR"
    /\ Uploads[2].fn = "glUniform1f" /\ Uploads[2].args[1] = 0

\* C14: whatever the GPU state was when draw_mesh was entered, at the moment
\* line 259 issues the draw command of a draw none of whose wrapped calls
\* failed, blending is enabled with equation GL_FUNC_ADD and factors
\* (GL_SRC_ALPHA, GL_ONE_MINUS_SRC_ALPHA), face culling and the depth test are
\* disabled, the scissor test is enabled exactly when the scissor argument is
\* true, the array buffer binding is mesh.vbo_handle and the current program
\* is shader.handle.
C14_DrawState ==
    (At("draw_mesh", 259) /\ Failed = {}) =>
        /\ gl.blend
        /\ gl.blendEq = "GL_FUNC_ADD"
        /\ gl.blendFunc = <<"GL_SRC_ALPHA", "GL_ONE_MINUS_SRC_ALPHA">>
        /\ ~gl.cull
        /\ ~gl.depth
        /\ gl.scissor <=> inp.scissor
        /\ gl.arrayBuffer = mesh.vbo_handle
        /\ gl.program = shader.handle

\* The draw command is about to be issued, no call of the draw has failed,
\* and every one of the settings differed when the draw was entered.
C14_Witness ==
    /\ At("draw_mesh", 259) /\ Failed = {}
    /\ ~pre.gl.blend
    /\ pre.gl.blendEq = "GL_FUNC_SUBTRACT"
    /\ pre.gl.blendFunc = <<"GL_ONE", "GL_ZERO">>
    /\ pre.gl.cull /\ pre.gl.depth
    /\ pre.gl.scissor /\ ~inp.scissor
    /\ pre.gl.arrayBuffer # mesh.vbo_handle
    /\ pre.gl.program \notin {0, shader.handle}

\* The stages of a program: the line that creates the stage's shader object
\* and the position of its status query among the queries of line 99.
Stages ==
    {[type |-> "vertex", create |-> 116, query |-> 1],
     [type |-> "fragment", create |-> 117, query |-> 2]}

\* The compilation diagnostic of a stage is in the log, tagged with the
\* caller's file and line.
Reported(type) ==
    \E n \in DOMAIN log :
        /\ log[n].kind = "Compilation error" /\ log[n].str = type
        /\ log[n].file = inp.file /\ log[n].line = inp.line

\* C15: when compile_shader has returned, for the vertex and for the fragment
\* stage whose status query of line 99 raised no error, the compilation
\* diagnostic tagged with the stage and the caller's file and line is in the
\* log exactly when the compile status of the stage's shader object is not
\* success; and whatever the two statuses are, and whichever calls failed,
\* the two attach calls, the link call, one attribute lookup per attribute
\* name and one uniform lookup per uniform name were issued, in the order of
\* the names, and when no call up to the attach calls failed both shader
\* objects are attached to the program.
C15_CompileFailureNotFatal ==
    Returned("compile_shader") =>
        /\ \A s \in Stages :
             LET created == IssuedInOrder({s.create}, Len(trace))[1].ret
                 query == IssuedInOrder({99}, Len(trace))[s.query]
             IN query.e = "GL_NO_ERROR" =>
                    (Reported(s.type) <=> ~gl.shaders[created].compiled)
        /\ Len(IssuedInOrder({99}, Len(trace))) = 2
        /\ LET attach == IssuedInOrder({123, 124}, Len(trace))
               link == IssuedInOrder({129}, Len(trace))
               attribs == IssuedInOrder({137}, Len(trace))
               uniforms == IssuedInOrder({146}, Len(trace))
           IN /\ Len(attach) = 2
              /\ \A n \in 1..2 : attach[n].fn = "glAttachShader"
                                 /\ attach[n].args[1] = shader.handle
              /\ attach[1].args[2] = IssuedInOrder({116}, Len(trace))[1].ret
              /\ attach[2].args[2] = IssuedInOrder({117}, Len(trace))[1].ret
              /\ Len(link) = 1
              /\ link[1].fn = "glLinkProgram" /\ link[1].args = <<shader.handle>>
              /\ Len(attribs) = inp.attrib_count
              /\ \A n \in DOMAIN attribs :
                   /\ attribs[n].fn = "glGetAttribLocation"
                   /\ attribs[n].args = <<shader.handle, inp.names[n]>>
              /\ Len(uniforms) = inp.uniform_count
              /\ \A n \in DOMAIN uniforms :
                   /\ uniforms[n].fn = "glGetUniformLocation"
                   /\ uniforms[n].args = <<shader.handle, inp.names[inp.attrib_count + n]>>
              /\ Failed \cap IssuedAt(115..124) = {} =>
                   Attached(gl, shader.handle) = {attach[1].args[2], attach[2].args[2]}

\* compile_shader has returned for a fragment source that fails to compile,
\* with no call failing up to the link: only the fragment diagnostic is in
\* the log, both shader objects are attached and the uniform lookup was made.
C15_Witness ==
    /\ Returned("compile_shader")
    /\ Failed \cap IssuedAt(99..129) = {}
    /\ Cardinality(Attached(gl, shader.handle)) = 2
    /\ inp.vert.ok /\ ~inp.frag.ok
    /\ Reported("fragment") /\ ~Reported("vertex")
    /\ Calls("glLinkProgram") # {}
    /\ Calls("glGetUniformLocation") # {}

\* C16: every slot-table entry a draw reads was written by compile_shader:
\* each call of draw_mesh and of set_vertex_attribs that reads attribs[k]
\* has k < shader.attrib_count, and each that reads uniforms[k] has
\* k < shader.uniform_count, whatever uniform_count the caller of draw_mesh
\* passes.
C16_ReadsWithinCounts ==
    (In("draw_mesh") \/ Returned("draw_mesh")) =>
        \A n \in DOMAIN trace : \A r \in trace[n].reads :
            /\ r[1] = "attribs" => r[2] < shader.attrib_count
            /\ r[1] = "uniforms" => r[2] < shader.uniform_count

\* The error reports of the log and the failed calls of trace, in order.
Reports == SelectSeq(log, LAMBDA r : r.kind = "OpenGL Error")

FailedCalls == SelectSeq(trace, LAMBDA c : c.e # "GL_NO_ERROR")

\* C17: in an operation entered with no error pending, whose GPU calls raise
\* at most one error each, no error is pending after any wrapped call nor at
\* the return; there is one error report per failed call, in the order of
\* the calls, and the n-th report carries the expression of the n-th failed
\* call, the line of that call and the category of the code it raised; and
\* what compile_shader stored in shader.handle and in the slots is the value
\* the creating call and the lookups returned.
C17_ErrorsAttributed ==
    /\ err = {}
    /\ Len(Reports) = Len(FailedCalls)
    /\ \A n \in DOMAIN Reports :
         /\ Reports[n].expr.fn = FailedCalls[n].fn
         /\ Reports[n].expr.args = FailedCalls[n].args
         /\ Reports[n].line = FailedCalls[n].line
         /\ Reports[n].by = FailedCalls[n].line
         /\ Reports[n].str = Category(FailedCalls[n].e)
    /\ Returned("compile_shader") =>
         /\ shader.handle = IssuedInOrder({115}, Len(trace))[1].ret
         /\ \A i \in 0..(inp.attrib_count - 1) :
              shader.attribs[i] = IssuedInOrder({137}, Len(trace))[i + 1].ret
         /\ \A i \in 0..(inp.uniform_count - 1) :
              shader.uniforms[i] = IssuedInOrder({146}, Len(trace))[i + 1].ret

\* A draw has returned two of whose calls failed, the attribute setup of a
\* sentinel slot among them, each with its own report.
C17_Witness ==
    /\ Returned("draw_mesh")
    /\ Len(FailedCalls) >= 2
    /\ \E n \in DOMAIN Reports :
         /\ Reports[n].expr.fn = "glVertexAttribPointer"
         /\ Reports[n].str = "Invalid value"
    /\ err = {}

\* C18: in draw_mesh the bind of line 222 is issued before the first uniform
\* upload, and the restoring bind of line 264 after the last upload and
\* after the draw command; every upload is issued while shader.handle is the
\* current program, and no upload that takes effect is issued while the
\* program the caller had bound, another one than shader.handle, is current.
C18_UploadsIntoOwnProgram ==
    (In("draw_mesh") \/ Returned("draw_mesh")) =>
        /\ \A u \in IssuedAt({228}) :
             /\ \E b \in IssuedAt({222}) : b < u
             /\ \A d \in IssuedAt({259, 264}) : u < d
        /\ \A d \in IssuedAt({259}) : \A r \in IssuedAt({264}) : d < r
        /\ \A u \in IssuedAt({228}) :
             /\ trace[u].program = shader.handle
             /\ (trace[u].e = "GL_NO_ERROR" /\ trace[u].args[1] # -1) =>
                    (trace[u].program # pre.gl.program
                     \/ pre.gl.program = shader.handle)

\* C19: when allocate_tex has returned h, h is a name that was unused, the
\* texture bound to the 2D target is h and not the one bound at entry, and
\* the min and the mag filter of h are GL_LINEAR, its image an RGBA8 image
\* of the size asked for; when init_quad or transform_quad has returned, the
\* buffer bound to the array-buffer target is mesh.vbo_handle; and a draw
\* entered with h bound queries h at line 212 and binds h again at line 267,
\* so h is bound when it returns.
C19_BindingsLeft ==
    /\ Returned("allocate_tex") =>
         /\ loc.tex \in 1..MaxHandle
         /\ loc.tex \notin pre.gl.textureNames
         /\ gl.texture = loc.tex /\ gl.texture # pre.gl.texture
         /\ gl.textures[loc.tex].min = "GL_LINEAR"
         /\ gl.textures[loc.tex].mag = "GL_LINEAR"
         /\ gl.textures[loc.tex].image = "GL_RGBA8"
         /\ gl.textures[loc.tex].width = inp.width
         /\ gl.textures[loc.tex].height = inp.height
    /\ (Returned("init_quad") \/ Returned("transform_quad")) =>
         /\ mesh.vbo_handle \in 1..MaxHandle
         /\ gl.arrayBuffer = mesh.vbo_handle
    /\ Returned("draw_mesh") =>
         /\ \A k \in IssuedAt({212}) : trace[k].ret = pre.gl.texture
         /\ \A k \in IssuedAt({267}) : trace[k].args = <<"GL_TEXTURE_2D", pre.gl.texture>>
         /\ gl.texture = pre.gl.texture

\* A draw has returned that was entered with the texture allocate_tex made
\* out of the unused name 2 bound, and left it bound.
C19_Witness ==
    /\ Returned("draw_mesh")
    /\ pre.gl.texture = 2 /\ gl.texture = 2
    /\ gl.textures[2].image = "GL_RGBA8" /\ gl.textures[2].min = "GL_LINEAR"
    /\ IssuedAt({267}) # {}

=============================================================================
